---- MODULE Spec2Model ----
(***************************************************************************)
(* PostPolice cache server (server/index.js): the Express handlers         *)
(* /check-summary, /cache-summary, /clear-cache, /reset-stats, /metrics    *)
(* and /health, the hit/miss counters, the shared iovalkey connection and  *)
(* the Valkey keyspace behind it, with the extension's cache client        *)
(* (background.js).                                                        *)
(*                                                                         *)
(* Strings are sequences of UTF-8 byte values, so that hashContent can be  *)
(* computed as the code computes it (SHA-256, hex, "summary:" prefix).     *)
(* A 32-bit word of the digest is a pair <<high 16 bits, low 16 bits>>.    *)
(***************************************************************************)
EXTENDS Integers, Sequences, FiniteSets, TLC

(***************************************************************************)
(* SHA-256 (crypto.createHash("sha256").update(content).digest("hex"))     *)
(***************************************************************************)
Pow2(n) == 2^n

\* The bitwise operations on two 4-bit values, tabulated.
NibbleOp ==
    [op \in {"xor", "and"} |-> [x \in 0..15 |-> [y \in 0..15 |->
        LET bit(i) == LET u == (x \div Pow2(i)) % 2
                          v == (y \div Pow2(i)) % 2
                      IN  IF op = "xor" THEN (u + v) % 2 ELSE u * v
        IN  bit(0) + 2 * bit(1) + 4 * bit(2) + 8 * bit(3)]]]

\* The bitwise operation op on the n low bits of a and b (n <= 16), four
\* bits at a time.
BitOp(op, a, b, n) ==
    LET f == NibbleOp[op]
        x == a % Pow2(n)
        y == b % Pow2(n)
    IN  f[x % 16][y % 16]
        + 16 * f[(x \div 16) % 16][(y \div 16) % 16]
        + 256 * f[(x \div 256) % 16][(y \div 256) % 16]
        + 4096 * f[x \div 4096][y \div 4096]

Xor(a, b) == <<BitOp("xor", a[1], b[1], 16), BitOp("xor", a[2], b[2], 16)>>
And(a, b) == <<BitOp("and", a[1], b[1], 16), BitOp("and", a[2], b[2], 16)>>
Not(a) == <<65535 - a[1], 65535 - a[2]>>
Add(a, b) == LET lo == a[2] + b[2]
                 hi == a[1] + b[1] + (lo \div 65536)
             IN  <<hi % 65536, lo % 65536>>
Rotr(a, n) ==
    LET s == IF n >= 16 THEN <<a[2], a[1]>> ELSE a
        m == n % 16
    IN  IF m = 0 THEN s
        ELSE <<(s[1] \div Pow2(m)) + (s[2] % Pow2(m)) * Pow2(16 - m),
               (s[2] \div Pow2(m)) + (s[1] % Pow2(m)) * Pow2(16 - m)>>
Shr(a, n) ==
    IF n >= 16 THEN <<0, a[1] \div Pow2(n - 16)>>
    ELSE <<a[1] \div Pow2(n), (a[2] \div Pow2(n)) + (a[1] % Pow2(n)) * Pow2(16 - n)>>

Sha256K ==
    <<
       <<17034, 12184>>, <<28983, 17553>>, <<46528, 64463>>, <<59829, 56229>>,
       <<14678, 49755>>, <<23025, 4593>>, <<37439, 33444>>, <<43804, 24277>>,
       <<55303, 43672>>, <<4739, 23297>>, <<9265, 34238>>, <<21772, 32195>>,
       <<29374, 23924>>, <<32990, 45566>>, <<39900, 1703>>, <<49563, 61812>>,
       <<58523, 27073>>, <<61374, 18310>>, <<4033, 40390>>, <<9228, 41420>>,
       <<11753, 11375>>, <<19060, 33962>>, <<23728, 43484>>, <<30457, 35034>>,
       <<38974, 20818>>, <<43057, 50797>>, <<45059, 10184>>, <<48985, 32711>>,
       <<50912, 3059>>, <<54695, 37191>>, <<1738, 25425>>, <<5161, 10599>>,
       <<10167, 2693>>, <<11803, 8504>>, <<19756, 28156>>, <<21304, 3347>>,
       <<25866, 29524>>, <<30314, 2747>>, <<33218, 51502>>, <<37490, 11397>>,
       <<41663, 59553>>, <<43034, 26187>>, <<49739, 35696>>, <<51052, 20899>>,
       <<53650, 59417>>, <<54937, 1572>>, <<62478, 13701>>, <<4202, 41072>>,
       <<6564, 49430>>, <<7735, 27656>>, <<10056, 30540>>, <<13488, 48309>>,
       <<14620, 3251>>, <<20184, 43594>>, <<23452, 51791>>, <<26670, 28659>>,
       <<29839, 33518>>, <<30885, 25455>>, <<33992, 30740>>, <<36039, 520>>,
       <<37054, 65530>>, <<42064, 27883>>, <<48889, 41975>>, <<50801, 30962>> >>

Sha256H0 ==
    <<
       <<27145, 58983>>, <<47975, 44677>>, <<15470, 62322>>, <<42319, 62778>>,
       <<20750, 21119>>, <<39685, 26764>>, <<8067, 55723>>, <<23520, 52505>> >>

SmallSigma0(x) == Xor(Xor(Rotr(x, 7), Rotr(x, 18)), Shr(x, 3))
SmallSigma1(x) == Xor(Xor(Rotr(x, 17), Rotr(x, 19)), Shr(x, 10))
BigSigma0(x) == Xor(Xor(Rotr(x, 2), Rotr(x, 13)), Rotr(x, 22))
BigSigma1(x) == Xor(Xor(Rotr(x, 6), Rotr(x, 11)), Rotr(x, 25))
Ch(x, y, z) == Xor(And(x, y), And(Not(x), z))
Maj(x, y, z) == Xor(Xor(And(x, y), And(x, z)), And(y, z))

Zeros(n) == [i \in 1..n |-> 0]
Sha256Pad(bytes) ==
    LET l == Len(bytes)
        k == (119 - (l % 64)) % 64
        bits == 8 * l
    IN  bytes \o <<128>> \o Zeros(k) \o Zeros(4)
        \o << (bits \div 16777216) % 256, (bits \div 65536) % 256,
              (bits \div 256) % 256, bits % 256 >>

BlockWords(padded, b) ==
    [i \in 1..16 |->
        LET o == 64 * b + 4 * (i - 1)
        IN  <<padded[o + 1] * 256 + padded[o + 2], padded[o + 3] * 256 + padded[o + 4]>>]

\* The message schedule extended to n words.  The extension is halved so
\* that the evaluation nests a few levels deep rather than one level per word.
RECURSIVE Schedule(_, _)
Schedule(w, n) ==
    IF n <= Len(w) THEN w
    ELSE IF n = Len(w) + 1
         THEN LET t == n
              IN  Append(w,
                     Add(Add(SmallSigma1(w[t - 2]), w[t - 7]),
                         Add(SmallSigma0(w[t - 15]), w[t - 16])))
         ELSE LET m == (Len(w) + n) \div 2
                  h == Schedule(w, m)
              IN  IF Len(h) = m THEN Schedule(h, n) ELSE h

Round(s, w, t) ==
    LET t1 == Add(Add(Add(s[8], BigSigma1(s[5])), Add(Ch(s[5], s[6], s[7]), Sha256K[t])), w[t])
        t2 == Add(BigSigma0(s[1]), Maj(s[1], s[2], s[3]))
    IN  <<Add(t1, t2), s[1], s[2], s[3], Add(s[4], t1), s[5], s[6], s[7]>>

\* The compression rounds lo..hi applied in order, halved in the same way.
RECURSIVE Rounds(_, _, _, _)
Rounds(s, w, lo, hi) ==
    IF lo > hi THEN s
    ELSE IF lo = hi THEN Round(s, w, lo)
         ELSE LET m == (lo + hi) \div 2
                  n == Rounds(s, w, lo, m)
              IN  IF Len(n) = 8 THEN Rounds(n, w, m + 1, hi) ELSE n

\* The schedule of a block is computed before its rounds, and the rounds
\* before the next block.
RECURSIVE Blocks(_, _, _)
Blocks(h, padded, b) ==
    IF 64 * b >= Len(padded) THEN h
    ELSE LET w == Schedule(BlockWords(padded, b), 64)
         IN  IF Len(w) # 64 THEN w
             ELSE LET s == Rounds(h, w, 1, 64)
                  IN  IF Len(s) # 8 THEN s
                      ELSE Blocks([i \in 1..8 |-> Add(h[i], s[i])], padded, b + 1)

HexDigit == <<"0", "1", "2", "3", "4", "5", "6", "7", "8", "9", "a", "b", "c", "d", "e", "f">>
Hex16(n) == HexDigit[(n \div 4096) + 1] \o HexDigit[((n \div 256) % 16) + 1]
            \o HexDigit[((n \div 16) % 16) + 1] \o HexDigit[(n % 16) + 1]
RECURSIVE HexWords(_, _)
HexWords(h, i) == IF i > Len(h) THEN "" ELSE Hex16(h[i][1]) \o Hex16(h[i][2]) \o HexWords(h, i + 1)

Sha256Hex(bytes) == HexWords(Blocks(Sha256H0, Sha256Pad(bytes), 0), 1)

(***************************************************************************)
(* Constants of the server and the inputs of the model                     *)
(***************************************************************************)
TTL_SECONDS == 600

\* The digest taken without update(content).
hashContentNoUpdate(content) == "summary:" \o Sha256Hex(<<>>)

\* The digest of the content folded to lower case.
hashContentFolded(content) ==
    "summary:" \o Sha256Hex([i \in 1..Len(content) |->
        IF content[i] \in 65..90 THEN content[i] + 32 ELSE content[i]])

\* "summary:" + hex(sha256(content))
hashContent(content) == "summary:" \o Sha256Hex(content)

\* "The sky is blue."
SkyBlue == <<84, 104, 101, 32, 115, 107, 121, 32, 105, 115, 32, 98, 108, 117, 101, 46>>
\* "The sky is Blue."
SkyBlueCap == <<84, 104, 101, 32, 115, 107, 121, 32, 105, 115, 32, 66, 108, 117, 101, 46>>
\* "TRUE" and "FALSE"
SumTrue == <<84, 82, 85, 69>>
SumFalse == <<70, 65, 76, 83, 69>>
EmptyString == <<>>

Contents == {SkyBlue, SkyBlueCap}
Summaries == {SumTrue, SumFalse}

\* The keys of the contents the model sends, hashed once.
KeyOf == [c \in Contents \cup {EmptyString} |-> hashContent(c)]

\* A key of another key family sharing the same Valkey instance, present
\* when the server starts.
ForeignKey == "session:1"

\* Bounds of the model.
MaxInFlight == 2
MaxLookups == 2

\* "store summaries for 10 minutes": the lifetime the documentation promises,
\* in seconds, by which the history variables measure the age of a write.
TenMinutes == 600

\* Seconds by which the clock advances in one step.
Ticks == {TenMinutes \div 2}

\* JSON request bodies.  A body without a field makes the destructured
\* variable undefined; a field that is "" is present but empty.
CheckBodies ==
    {[content |-> c] : c \in Contents \cup {EmptyString}} \cup {[text |-> SkyBlue]}
CacheBodies ==
    {[content |-> SkyBlue, summary |-> v] : v \in Summaries}
    \cup {[content |-> SkyBlueCap, summary |-> SumFalse]}
    \cup {[summary |-> SumTrue], [content |-> EmptyString, summary |-> SumTrue],
          [content |-> SkyBlue], [content |-> SkyBlue, summary |-> EmptyString]}
\* The Accept header of a GET /metrics request.
MetricsAccept == {"text/html", "application/json"}
ForeignDb == [k \in {ForeignKey} |-> [value |-> SumTrue, ttl |-> -1]]
NoBody == [none |-> TRUE]

\* x === undefined in place of !x
NotUndefinedOnly(body, field) == field \notin DOMAIN body

\* !x for a destructured body field x that is a string or undefined
Not_(body, field) == field \notin DOMAIN body \/ Len(body[field]) = 0

(***************************************************************************)
(* Valkey commands on a keyspace db: a function from the keys present to   *)
(* [value, ttl], ttl = -1 for a key without expiry.                        *)
(***************************************************************************)
EmptyDb == [k \in {} |-> [value |-> EmptyString, ttl |-> -1]]

\* GET key: <<value>>, or << >> for nil
ValkeyGet(db, key) == IF key \in DOMAIN db THEN <<db[key].value>> ELSE <<>>

\* SET key value EX seconds NX: an existing key is left as it is.
ValkeySetNx(db, key, value, seconds) ==
    [k \in DOMAIN db \cup {key} |->
        IF k = key /\ k \notin DOMAIN db THEN [value |-> value, ttl |-> seconds] ELSE db[k]]

\* SET key value KEEPTTL: an existing key keeps its time to live.
ValkeySetKeepTtl(db, key, value, seconds) ==
    [k \in DOMAIN db \cup {key} |->
        IF k = key
        THEN [value |-> value, ttl |-> IF k \in DOMAIN db THEN db[k].ttl ELSE seconds]
        ELSE db[k]]

\* SET key value EX seconds
ValkeySet(db, key, value, seconds) ==
    [k \in DOMAIN db \cup {key} |->
        IF k = key THEN [value |-> value, ttl |-> seconds] ELSE db[k]]

\* FLUSHALL answered before any key is removed.
ValkeyFlushallDeferred(db) == db

\* A purge of the "summary:" keys only.
ValkeyFlushSummaries(db) == [k \in DOMAIN db \cap {ForeignKey} |-> db[k]]

\* FLUSHALL
ValkeyFlushall(db) == EmptyDb

\* DBSIZE
ValkeyDbsize(db) == Cardinality(DOMAIN db)

\* Keys whose time to live has run out are absent after d seconds.
ValkeyExpire(db, d) ==
    LET alive == {k \in DOMAIN db : db[k].ttl = -1 \/ db[k].ttl > d}
    IN  [k \in alive |->
            IF db[k].ttl = -1 THEN db[k] ELSE [db[k] EXCEPT !.ttl = @ - d]]

\* retryStrategy(times): the delay in ms, or Null to stop reconnecting
Null == -1
Min(a, b) == IF a < b THEN a ELSE b

\* The delay doubling with every retry.
retryStrategyDoubling(times) == IF times > 3 THEN Null ELSE Min(100 * 2^times, 2000)

\* if (times > 4) return null
retryStrategyFour(times) == IF times > 4 THEN Null ELSE Min(times * 200, 2000)

retryStrategy(times) == IF times > 3 THEN Null ELSE Min(times * 200, 2000)


(***************************************************************************)
(* State                                                                   *)
(***************************************************************************)
VARIABLES
    conn,        \* status of the shared iovalkey connection
    attempts,    \* its retry counter (the argument of retryStrategy)
    kv,          \* the keyspace of the Valkey instance
    cacheHits,   \* let cacheHits
    cacheMisses, \* let cacheMisses
    pending,     \* requests awaiting a valkey call, in the order of the calls
    settled,     \* requests whose awaited call has settled, continuation due
    out,         \* the response being sent, until the client has it (with, as
                 \*   history, what the handler's step replaced)
    written,     \* history: per content, the last SET executed since the last
                 \*   FLUSHALL, with its age while younger than ten minutes and
                 \*   the age the entry it replaced had, if that was an older one
    seen,        \* history: per content, the summary of the last hit observed
                 \*   since the clock last advanced or the store was flushed
    answered,    \* history: lookups answered hit / miss since start or reset
    ext,         \* the extension's service worker: the extractSummary in progress
    fetches,     \* history: the fetch calls of that extractSummary, in order
    verified,    \* history: the POST /verify-fact requests the server handled
    fc,          \* factChecker.js: the verifyFact or verifyWithGemini in progress
    aiAvailable, \* content.js: let aiAvailable
    isProcessing,\* content.js: let isProcessing
    debounceTimer, \* content.js: let debounceTimer (Null, or the timer's id)
    timers,      \* the page's pending timeouts, with the milliseconds left
    scans,       \* the scanPage executions in progress
    page         \* the content script's init, and as history how the last
                 \*   scan ended and the mutations since the last debounced scan

\* The variables of the content script.
contentVars == <<aiAvailable, isProcessing, debounceTimer, timers, scans, page>>
\* The variables of the extension and of the server's Groq proxy.
extVars == <<ext, fetches, verified, fc, contentVars>>
\* The variables of the cache server and its Valkey connection.
serverVars == <<conn, attempts, kv, cacheHits, cacheMisses, pending, settled, out,
                written, seen, answered>>

vars == <<conn, attempts, kv, cacheHits, cacheMisses, pending, settled, out,
          written, seen, answered, ext, fetches, verified, fc, aiAvailable,
          isProcessing, debounceTimer, timers, scans, page>>

NoReply == [st |-> "none"]
Pending == [st |-> "pending"]
ErrReply == [st |-> "err"]
\* The rejection of a call made on a connection that had ended.
ClosedReply == [st |-> "err", closed |-> TRUE]
OkReply(val) == [st |-> "ok", val |-> val]
NoCmd == [name |-> "none"]
NoOut == [none |-> TRUE]
Unwritten == [v |-> EmptyString, age |-> -1, prior |-> -1]
Expired == [v |-> EmptyString, age |-> TenMinutes, prior |-> -1]
Fresh(w) == w.age >= 0 /\ w.age < TenMinutes

\* An HTTP request entering its handler.  (expect, execs and raced are
\* history: what was written for the content when Valkey executed the
\* command; how many times Valkey has executed the request's SET or
\* FLUSHALL, 2 for two or more; and, of a lookup, whether Valkey executed
\* its GET or a FLUSHALL while the lookup and the purge were both waiting.)
Request(op, body) ==
    [op |-> op, body |-> body, cmd |-> NoCmd, dbsize |-> 0, reply |-> NoReply,
     expect |-> Unwritten, execs |-> 0, raced |-> FALSE]

\* The service worker with no extractSummary in progress.  (stored is
\* history: per content, the summary its stores have put in the cache.)
Idle == [pc |-> "idle", stored |-> [c \in {SkyBlue} |-> <<>>]]

\* res.status(status).json(body)
Json(status, body) == [status |-> status, body |-> body]

\* factChecker.js before a call: nothing fetched, no LLM called.
NotCalled ==
    [pc |-> "idle", via |-> "none", statement |-> EmptyString, links |-> <<>>,
     chunks |-> <<>>, fetched |-> 0, calls |-> 0, text |-> EmptyString,
     result |-> <<>>, error |-> "none"]

\* content.js as it is loaded: init is about to await checkAI; no scan has
\* ended and no mutation has been observed.
Loaded ==
    [init |-> "checkAI", last |-> "none", refused |-> FALSE, since |-> Null,
     calls |-> 0, gap |-> Null, cleared |-> FALSE]

Init ==
    /\ conn = "wait"
    /\ attempts = 0
    /\ kv = ForeignDb
    /\ cacheHits = 0
    /\ cacheMisses = 0
    /\ pending = <<>>
    /\ settled = <<>>
    /\ out = NoOut
    /\ written = [c \in Contents |-> Unwritten]
    /\ seen = [c \in Contents |-> EmptyString]
    /\ answered = [h |-> 0, m |-> 0]
    /\ ext = Idle
    /\ fetches = <<>>
    /\ verified = <<>>
    /\ fc = NotCalled
    /\ aiAvailable = FALSE
    /\ isProcessing = FALSE
    /\ debounceTimer = Null
    /\ timers = {}
    /\ scans = <<>>
    /\ page = Loaded

\* Nothing is due on the event loop: no continuation, no response to hand over.
Quiet == settled = <<>> /\ out = NoOut
\* A new request can be taken.
Accepting == Quiet /\ conn # "wait" /\ Len(pending) < MaxInFlight
\* The continuation of the request at the head of settled is run.
Resuming(op) == out = NoOut /\ settled # <<>> /\ Head(settled).op = op

\* A call on an ended connection queued like one on a connection not yet up.
AwaitOffline(r, cmd, rest) ==
    /\ settled' = rest
    /\ pending' = Append(pending, [r EXCEPT !.cmd = cmd, !.reply = Pending])

\* The handler, with its state r so far, calls a command of the valkey client
\* and awaits it; rest are the continuations still due.  On an ended
\* connection the call is rejected at once; otherwise the command is queued
\* behind the earlier ones.
Await(r, cmd, rest) ==
    IF conn = "end"
    THEN /\ settled' = Append(rest, [r EXCEPT !.cmd = cmd, !.reply = ClosedReply])
         /\ pending' = pending
    ELSE /\ settled' = rest
         /\ pending' = Append(pending, [r EXCEPT !.cmd = cmd, !.reply = Pending])

\* The handler of request r sends its response and ends.
Respond(r, resp) == out' = [req |-> r, resp |-> resp, prev |-> EmptyString]

(***************************************************************************)
(* POST /check-summary                                                     *)
(***************************************************************************)
PendingLookups == {i \in 1..Len(pending) : pending[i].op = "check"}

\* if (cached): a reply that is neither nil nor the empty string
Truthy(cached) == cached # <<>> /\ Len(cached[1]) > 0

\* The hit answered without its summary.
CheckSummaryResponseNoSummary(r) ==
    IF r.reply.st = "ok"
    THEN Json(200, [hit |-> Truthy(r.reply.val)])
    ELSE Json(500, [error |-> "cache check failed"])

\* The catch answering as a miss.
CheckSummaryResponseCatchMiss(r) ==
    IF r.reply.st = "ok"
    THEN IF Truthy(r.reply.val)
         THEN Json(200, [hit |-> TRUE, summary |-> r.reply.val[1]])
         ELSE Json(200, [hit |-> FALSE])
    ELSE Json(200, [hit |-> FALSE])

\* The response of the handler to the settled valkey.get of request r.
CheckSummaryResponse(r) ==
    IF r.reply.st = "ok"
    THEN IF Truthy(r.reply.val)
         THEN Json(200, [hit |-> TRUE, summary |-> r.reply.val[1]])
         ELSE Json(200, [hit |-> FALSE])
    ELSE Json(500, [error |-> "cache check failed"])

\* The miss path without cacheMisses++.
CheckSummaryCountersNoMiss(r, hits, misses) ==
    IF r.reply.st = "ok" /\ Truthy(r.reply.val) THEN <<hits + 1, misses>> ELSE <<hits, misses>>

\* cacheMisses = +1 in place of cacheMisses++.
CheckSummaryCountersAssign(r, hits, misses) ==
    IF r.reply.st = "ok"
    THEN IF Truthy(r.reply.val) THEN <<hits + 1, misses>> ELSE <<hits, 1>>
    ELSE <<hits, misses>>

\* The counters after the handler has dealt with the settled valkey.get.
CheckSummaryCounters(r, hits, misses) ==
    IF r.reply.st = "ok"
    THEN IF Truthy(r.reply.val) THEN <<hits + 1, misses>> ELSE <<hits, misses + 1>>
    ELSE <<hits, misses>>

\* The rejected lookup counted as a miss.
CheckSummaryCountsInvalid(body) ==
    /\ Accepting
    /\ cacheHits + cacheMisses + Cardinality(PendingLookups) < MaxLookups
    /\ LET r == Request("check", body)
       IN  IF Not_(body, "content")
           THEN /\ Respond(r, Json(400, [error |-> "content is required"]))
                /\ cacheMisses' = cacheMisses + 1
                /\ UNCHANGED <<pending, settled>>
           ELSE /\ Await(r, [name |-> "get", key |-> KeyOf[body.content]], settled)
                /\ cacheMisses' = cacheMisses
                /\ out' = out
    /\ UNCHANGED <<extVars, conn, attempts, kv, cacheHits, written, seen, answered>>

\* Lines 50-56: validation, hashContent, valkey.get issued.
CheckSummary(body) ==
    /\ Accepting
    /\ cacheHits + cacheMisses + Cardinality(PendingLookups) < MaxLookups
    /\ LET r == Request("check", body)
       IN  IF Not_(body, "content")
           THEN /\ Respond(r, Json(400, [error |-> "content is required"]))
                /\ UNCHANGED <<pending, settled>>
           ELSE /\ Await(r, [name |-> "get", key |-> KeyOf[body.content]], settled)
                /\ out' = out
    /\ UNCHANGED <<extVars, conn, attempts, kv, cacheHits, cacheMisses, written, seen, answered>>

\* Lines 58-70: the continuation after await valkey.get, or the catch.
\* With observed, the history of the summaries answered is kept.
CheckSummaryResumes(observed) ==
    /\ Resuming("check")
    /\ LET r == Head(settled)
           resp == CheckSummaryResponse(r)
           ctrs == CheckSummaryCounters(r, cacheHits, cacheMisses)
       IN  /\ cacheHits' = ctrs[1]
           /\ cacheMisses' = ctrs[2]
           /\ answered' =
                IF "hit" \in DOMAIN resp.body
                THEN IF resp.body.hit THEN [answered EXCEPT !.h = @ + 1]
                                      ELSE [answered EXCEPT !.m = @ + 1]
                ELSE answered
           /\ IF observed /\ "summary" \in DOMAIN resp.body /\ r.body.content \in Contents
              THEN /\ out' = [req |-> r, resp |-> resp, prev |-> seen[r.body.content]]
                   /\ seen' = [seen EXCEPT ![r.body.content] = resp.body.summary]
              ELSE /\ Respond(r, resp)
                   /\ seen' = seen
    /\ settled' = Tail(settled)
    /\ UNCHANGED <<extVars, conn, attempts, kv, pending, written>>

CheckSummaryResume == CheckSummaryResumes(FALSE)
CheckSummaryResumeObserved == CheckSummaryResumes(TRUE)

(***************************************************************************)
(* POST /cache-summary                                                     *)
(***************************************************************************)
\* valkey.set(key, summary), without the expiry.
SetCommandNoExpiry(key, summary) ==
    [name |-> "set", key |-> key, value |-> summary, ex |-> -1]

\* The key of a store salted with whether the process has counted a lookup.
SetCommandSaltedKey(key, summary) ==
    [name |-> "set", key |-> key \o (IF cacheHits + cacheMisses > 0 THEN "1" ELSE "0"),
     value |-> summary, ex |-> TTL_SECONDS]

\* valkey.set(key, summary, "EX", TTL_SECONDS)
SetCommand(key, summary) ==
    [name |-> "set", key |-> key, value |-> summary, ex |-> TTL_SECONDS]

\* The validation of the content alone.
CacheSummaryContentOnly(body) ==
    /\ Accepting
    /\ LET r == Request("cache", body)
       IN  IF Not_(body, "content") \/ "summary" \notin DOMAIN body
           THEN /\ Respond(r, Json(400, [error |-> "content and summary are required"]))
                /\ UNCHANGED <<pending, settled>>
           ELSE /\ Await(r, SetCommand(KeyOf[body.content], body.summary), settled)
                /\ out' = out
    /\ UNCHANGED <<extVars, conn, attempts, kv, cacheHits, cacheMisses, written, seen, answered>>

\* Lines 78-86: validation, hashContent, valkey.set issued.
CacheSummary(body) ==
    /\ Accepting
    /\ LET r == Request("cache", body)
       IN  IF Not_(body, "content") \/ Not_(body, "summary")
           THEN /\ Respond(r, Json(400, [error |-> "content and summary are required"]))
                /\ UNCHANGED <<pending, settled>>
           ELSE /\ Await(r, SetCommand(KeyOf[body.content], body.summary), settled)
                /\ out' = out
    /\ UNCHANGED <<extVars, conn, attempts, kv, cacheHits, cacheMisses, written, seen, answered>>

\* The handler without its catch: the rejection is not answered.
CacheSummaryResumeNoCatch ==
    /\ Resuming("cache")
    /\ LET r == Head(settled)
       IN  IF r.reply.st = "ok"
           THEN Respond(r, Json(200, [stored |-> TRUE]))
           ELSE out' = out
    /\ settled' = Tail(settled)
    /\ UNCHANGED <<extVars, conn, attempts, kv, cacheHits, cacheMisses, pending, written, seen, answered>>

\* The catch answering like the try.
CacheSummaryResumeAlwaysStored ==
    /\ Resuming("cache")
    /\ Respond(Head(settled), Json(200, [stored |-> TRUE]))
    /\ settled' = Tail(settled)
    /\ UNCHANGED <<extVars, conn, attempts, kv, cacheHits, cacheMisses, pending, written, seen, answered>>

\* Lines 88-93: the continuation after await valkey.set, or the catch.
CacheSummaryResume ==
    /\ Resuming("cache")
    /\ LET r == Head(settled)
       IN  Respond(r, IF r.reply.st = "ok" THEN Json(200, [stored |-> TRUE])
                      ELSE Json(500, [error |-> "cache store failed"]))
    /\ settled' = Tail(settled)
    /\ UNCHANGED <<extVars, conn, attempts, kv, cacheHits, cacheMisses, pending, written, seen, answered>>

(***************************************************************************)
(* POST /clear-cache, POST /reset-stats                                    *)
(***************************************************************************)
\* Lines 219-221: valkey.flushall issued.
ClearCache ==
    /\ Accepting
    /\ Await(Request("clear", NoBody), [name |-> "flushall"], settled)
    /\ UNCHANGED <<extVars, conn, attempts, kv, cacheHits, cacheMisses, out, written, seen, answered>>

\* The catch counting the failed purge as a miss.
ClearCacheResumeCountsFailure ==
    /\ Resuming("clear")
    /\ LET r == Head(settled)
       IN  /\ Respond(r, IF r.reply.st = "ok"
                         THEN Json(200, [success |-> TRUE, message |-> "Cache cleared"])
                         ELSE Json(500, [error |-> "failed to clear cache"]))
           /\ cacheMisses' = IF r.reply.st = "ok" THEN cacheMisses ELSE cacheMisses + 1
    /\ settled' = Tail(settled)
    /\ UNCHANGED <<extVars, conn, attempts, kv, cacheHits, pending, written, seen, answered>>

\* The purge that clears the counters with the entries.
ClearCacheResumeResetsStats ==
    /\ Resuming("clear")
    /\ LET r == Head(settled)
       IN  /\ Respond(r, IF r.reply.st = "ok"
                         THEN Json(200, [success |-> TRUE, message |-> "Cache cleared"])
                         ELSE Json(500, [error |-> "failed to clear cache"]))
           /\ cacheHits' = IF r.reply.st = "ok" THEN 0 ELSE cacheHits
           /\ cacheMisses' = IF r.reply.st = "ok" THEN 0 ELSE cacheMisses
    /\ settled' = Tail(settled)
    /\ UNCHANGED <<extVars, conn, attempts, kv, pending, written, seen, answered>>

\* The catch answering like the try.
ClearCacheResumeAlwaysSuccess ==
    /\ Resuming("clear")
    /\ Respond(Head(settled), Json(200, [success |-> TRUE, message |-> "Cache cleared"]))
    /\ settled' = Tail(settled)
    /\ UNCHANGED <<extVars, conn, attempts, kv, cacheHits, cacheMisses, pending, written, seen, answered>>

\* Lines 222-227: the continuation after await valkey.flushall, or the catch.
ClearCacheResume ==
    /\ Resuming("clear")
    /\ LET r == Head(settled)
       IN  Respond(r, IF r.reply.st = "ok"
                      THEN Json(200, [success |-> TRUE, message |-> "Cache cleared"])
                      ELSE Json(500, [error |-> "failed to clear cache"]))
    /\ settled' = Tail(settled)
    /\ UNCHANGED <<extVars, conn, attempts, kv, cacheHits, cacheMisses, pending, written, seen, answered>>

\* The reset that forgets cacheMisses.
ResetStatsHitsOnly ==
    /\ Accepting
    /\ cacheHits' = 0
    /\ cacheMisses' = cacheMisses
    /\ out' = [req |-> Request("reset", NoBody),
               resp |-> Json(200, [success |-> TRUE, message |-> "Stats reset"]),
               prev |-> <<cacheHits, cacheMisses>>]
    /\ answered' = [h |-> 0, m |-> 0]
    /\ UNCHANGED <<extVars, conn, attempts, kv, pending, settled, written, seen>>

\* Lines 234-239: synchronous, no await.
ResetStats ==
    /\ Accepting
    /\ cacheHits' = 0
    /\ cacheMisses' = 0
    /\ out' = [req |-> Request("reset", NoBody),
               resp |-> Json(200, [success |-> TRUE, message |-> "Stats reset"]),
               prev |-> <<cacheHits, cacheMisses>>]
    /\ answered' = [h |-> 0, m |-> 0]
    /\ UNCHANGED <<extVars, conn, attempts, kv, pending, settled, written, seen>>

(***************************************************************************)
(* GET /metrics, GET /health                                               *)
(***************************************************************************)
\* The reply to INFO memory, as its name:value lines.
InfoMemory == [used_memory_human |-> "1.00M"]

\* info.match(/used_memory_human:(.*)/), trimmed, or "unknown"
UsedMemory(info) ==
    IF "used_memory_human" \in DOMAIN info THEN info.used_memory_human ELSE "unknown"

\* The two counters exchanged in the stats object.
MetricsResponseSwapped(r, accept, hits, misses) ==
    Json(200, [cacheHits |-> misses, cacheMisses |-> hits, totalKeys |-> r.dbsize,
               usedMemory |-> UsedMemory(r.reply.val),
               html |-> (accept = "text/html")])

\* Lines 252-258 and 261-407: the stats object, as JSON or in the dashboard
\* page.  (uptime, a reading of the process clock, is left out.)
MetricsResponse(r, accept, hits, misses) ==
    Json(200, [cacheHits |-> hits, cacheMisses |-> misses, totalKeys |-> r.dbsize,
               usedMemory |-> UsedMemory(r.reply.val),
               html |-> (accept = "text/html")])

\* Lines 245-247: valkey.dbsize issued.
Metrics ==
    /\ Accepting
    /\ Await(Request("metrics", NoBody), [name |-> "dbsize"], settled)
    /\ UNCHANGED <<extVars, conn, attempts, kv, cacheHits, cacheMisses, out, written, seen, answered>>

\* The snapshot that starts a new measurement window: the counters are
\* cleared once reported.
MetricsResumeResets ==
    /\ Resuming("metrics")
    /\ LET r == Head(settled)
       IN  IF r.reply.st = "err"
           THEN /\ Respond(r, Json(500, [error |-> "metrics failed"]))
                /\ settled' = Tail(settled)
                /\ pending' = pending
                /\ UNCHANGED <<cacheHits, cacheMisses>>
           ELSE IF r.cmd.name = "dbsize"
           THEN /\ Await([r EXCEPT !.dbsize = r.reply.val],
                         [name |-> "info", section |-> "memory"], Tail(settled))
                /\ out' = out
                /\ UNCHANGED <<cacheHits, cacheMisses>>
           ELSE /\ \E accept \in MetricsAccept :
                     Respond(r, MetricsResponse(r, accept, cacheHits, cacheMisses))
                /\ settled' = Tail(settled)
                /\ pending' = pending
                /\ cacheHits' = 0
                /\ cacheMisses' = 0
    /\ UNCHANGED <<extVars, conn, attempts, kv, written, seen, answered>>

\* The failure of valkey.info answered with the stats gathered so far.
MetricsResumePartial ==
    /\ Resuming("metrics")
    /\ LET r == Head(settled)
       IN  IF r.reply.st = "err" /\ r.cmd.name = "dbsize"
           THEN /\ Respond(r, Json(500, [error |-> "metrics failed"]))
                /\ settled' = Tail(settled)
                /\ pending' = pending
           ELSE IF r.cmd.name = "dbsize"
           THEN /\ Await([r EXCEPT !.dbsize = r.reply.val],
                         [name |-> "info", section |-> "memory"], Tail(settled))
                /\ out' = out
           ELSE /\ \E accept \in MetricsAccept :
                     Respond(r, IF r.reply.st = "err"
                                THEN Json(200, [cacheHits |-> cacheHits,
                                                cacheMisses |-> cacheMisses,
                                                totalKeys |-> r.dbsize,
                                                usedMemory |-> "unknown",
                                                html |-> (accept = "text/html")])
                                ELSE MetricsResponse(r, accept, cacheHits, cacheMisses))
                /\ settled' = Tail(settled)
                /\ pending' = pending
    /\ UNCHANGED <<extVars, conn, attempts, kv, cacheHits, cacheMisses, written, seen, answered>>

\* Lines 248-411: after await valkey.dbsize the handler issues valkey.info;
\* after await valkey.info it builds and sends the stats; the catch answers 500.
\* The Accept header, first read at line 261, is drawn there.
MetricsResume ==
    /\ Resuming("metrics")
    /\ LET r == Head(settled)
       IN  IF r.reply.st = "err"
           THEN /\ Respond(r, Json(500, [error |-> "metrics failed"]))
                /\ settled' = Tail(settled)
                /\ pending' = pending
           ELSE IF r.cmd.name = "dbsize"
           THEN /\ Await([r EXCEPT !.dbsize = r.reply.val],
                         [name |-> "info", section |-> "memory"], Tail(settled))
                /\ out' = out
           ELSE /\ \E accept \in MetricsAccept :
                     Respond(r, MetricsResponse(r, accept, cacheHits, cacheMisses))
                /\ settled' = Tail(settled)
                /\ pending' = pending
    /\ UNCHANGED <<extVars, conn, attempts, kv, cacheHits, cacheMisses, written, seen, answered>>

\* Lines 417-419: valkey.ping issued.
Health ==
    /\ Accepting
    /\ Await(Request("health", NoBody), [name |-> "ping"], settled)
    /\ UNCHANGED <<extVars, conn, attempts, kv, cacheHits, cacheMisses, out, written, seen, answered>>

\* The catch answering that the service is down.
HealthResumeFails ==
    /\ Resuming("health")
    /\ LET r == Head(settled)
       IN  Respond(r, IF r.reply.st = "ok"
                      THEN Json(200, [status |-> "ok", valkey |-> "connected"])
                      ELSE Json(503, [status |-> "error", valkey |-> "disconnected"]))
    /\ settled' = Tail(settled)
    /\ UNCHANGED <<extVars, conn, attempts, kv, cacheHits, cacheMisses, pending, written, seen, answered>>

\* Lines 420-423: connected if the ping was answered, disconnected if not.
HealthResume ==
    /\ Resuming("health")
    /\ LET r == Head(settled)
       IN  Respond(r, Json(200, [status |-> "ok",
                   valkey |-> IF r.reply.st = "ok" THEN "connected" ELSE "disconnected"]))
    /\ settled' = Tail(settled)
    /\ UNCHANGED <<extVars, conn, attempts, kv, cacheHits, cacheMisses, pending, written, seen, answered>>

\* The client has the response.
Deliver ==
    /\ out # NoOut
    /\ out' = NoOut
    /\ UNCHANGED <<extVars, conn, attempts, kv, cacheHits, cacheMisses, pending, settled,
                   written, seen, answered>>

(***************************************************************************)
(* The Valkey instance and the connection to it                            *)
(***************************************************************************)
\* GET restarting the time to live of the key it reads.
ExecuteRefreshing(db, cmd) ==
    CASE cmd.name = "set" -> ValkeySet(db, cmd.key, cmd.value, cmd.ex)
      [] cmd.name = "flushall" -> ValkeyFlushall(db)
      [] cmd.name = "get" /\ cmd.key \in DOMAIN db ->
            [db EXCEPT ![cmd.key].ttl = TTL_SECONDS]
      [] OTHER -> db

\* The keyspace after Valkey has executed command cmd.
Execute(db, cmd) ==
    CASE cmd.name = "set" -> ValkeySet(db, cmd.key, cmd.value, cmd.ex)
      [] cmd.name = "flushall" -> ValkeyFlushall(db)
      [] OTHER -> db

\* The reply of Valkey to command cmd.
ReplyTo(db, cmd) ==
    CASE cmd.name = "get" -> ValkeyGet(db, cmd.key)
      [] cmd.name = "dbsize" -> ValkeyDbsize(db)
      [] cmd.name = "info" -> InfoMemory
      [] cmd.name = "ping" -> "PONG"
      [] OTHER -> "OK"

\* A purge waits behind the oldest command; the lookups among the waiting
\* requests marked as overtaken by a purge.
PurgeBehind == \E i \in 2..Len(pending) : pending[i].op = "clear"
Overtaken(waiting) ==
    [i \in 1..Len(waiting) |->
        IF waiting[i].op = "check" THEN [waiting[i] EXCEPT !.raced = TRUE] ELSE waiting[i]]

\* Valkey executes the oldest command the connection has brought it; the
\* reply is on its way back.
ValkeyExec ==
    /\ Quiet
    /\ conn = "ready"
    /\ pending # <<>>
    /\ LET r == Head(pending)
       IN  /\ kv' = Execute(kv, r.cmd)
           /\ settled' = <<[r EXCEPT !.reply = OkReply(ReplyTo(kv, r.cmd)),
                                     !.expect = IF r.op \in {"check", "cache"}
                                                   /\ r.body.content \in Contents
                                                THEN written[r.body.content] ELSE @,
                                     !.execs = IF r.cmd.name \in {"set", "flushall"}
                                               THEN Min(@ + 1, 2) ELSE @,
                                     !.raced = @ \/ (r.op = "check" /\ PurgeBehind)]>>
           /\ written' =
                CASE r.cmd.name = "set" /\ r.body.content \in Contents ->
                        [written EXCEPT ![r.body.content] =
                            [v |-> r.body.summary, age |-> 0,
                             prior |-> IF Fresh(@) /\ @.age > 0 THEN @.age ELSE -1]]
                  [] r.cmd.name = "flushall" -> [c \in Contents |-> Unwritten]
                  [] OTHER -> written
           /\ seen' = IF r.cmd.name = "flushall"
                      THEN [c \in Contents |-> EmptyString] ELSE seen
    /\ pending' = IF Head(pending).cmd.name = "flushall"
                   THEN Overtaken(Tail(pending)) ELSE Tail(pending)
    /\ UNCHANGED <<extVars, conn, attempts, cacheHits, cacheMisses, out, answered>>

Reject(r) == [r EXCEPT !.reply = ErrReply]
Resend(r) == [r EXCEPT !.reply = Pending, !.expect = Unwritten]

\* The socket has closed: the client asks retryStrategy whether to reconnect.
\* If so, a command whose reply has not arrived is sent again on the next
\* connection, ahead of the queued ones; if not, every waiting command is
\* rejected.
Close ==
    LET times == attempts + 1
        waiting == settled \o pending
    IN  /\ attempts' = times
        /\ IF retryStrategy(times) = Null
           THEN /\ conn' = "end"
                /\ settled' = [i \in 1..Len(waiting) |-> Reject(waiting[i])]
                /\ pending' = <<>>
           ELSE /\ conn' = "connecting"
                /\ settled' = <<>>
                /\ pending' = [i \in 1..Len(waiting) |-> Resend(waiting[i])]

\* Lines 29-30: valkey.connect() on the lazyConnect client, while the module
\* loads and before the server listens.
Connect ==
    /\ conn = "wait"
    /\ conn' = "connecting"
    /\ UNCHANGED <<extVars, attempts, kv, cacheHits, cacheMisses, pending, settled, out,
                   written, seen, answered>>

\* The connection of valkey.connect() (lines 29-32) or a reconnection succeeds.
ConnectOk ==
    /\ Quiet
    /\ conn = "connecting"
    /\ conn' = "ready"
    /\ attempts' = 0
    /\ UNCHANGED <<extVars, kv, cacheHits, cacheMisses, pending, settled, out, written, seen, answered>>

\* A connection attempt fails.
ConnectFail ==
    /\ Quiet
    /\ conn = "connecting"
    /\ Close
    /\ UNCHANGED <<extVars, kv, cacheHits, cacheMisses, out, written, seen, answered>>

\* An established connection is lost, with the reply in flight if there is one.
ConnectionLost ==
    /\ out = NoOut
    /\ conn = "ready"
    /\ Close
    /\ UNCHANGED <<extVars, kv, cacheHits, cacheMisses, out, written, seen, answered>>

\* d seconds pass.
Tick(d) ==
    /\ Quiet
    /\ kv' = ValkeyExpire(kv, d)
    /\ written' = [c \in Contents |->
          IF written[c].age = -1 THEN Unwritten
          ELSE IF written[c].age + d >= TenMinutes THEN Expired
          ELSE [written[c] EXCEPT !.age = @ + d]]
    /\ seen' = [c \in Contents |-> EmptyString]
    /\ kv' # kv \/ written' # written
    /\ UNCHANGED <<extVars, conn, attempts, cacheHits, cacheMisses, pending, settled, out, answered>>

(***************************************************************************)
(* The extension's cache client (background.js)                            *)
(***************************************************************************)
\* What fetch gives when the cache server cannot be reached.
FetchFailed == [status |-> 0, body |-> NoBody]

\* checkSummaryCache, from the outcome of its POST /check-summary:
\* <<summary>> for a hit, << >> for null.
checkSummaryCache(response) ==
    IF response = FetchFailed THEN <<>>
    ELSE IF ~(response.status \in 200..299) THEN <<>>
    ELSE IF "hit" \in DOMAIN response.body /\ response.body.hit
         THEN <<response.body.summary>>
         ELSE <<>>

\* Strings of the extension and of the LLM are sequences of UTF-16 code units.
Whitespace == {9, 10, 11, 12, 13, 32}

RECURSIVE trimStart(_)
trimStart(s) == IF s # <<>> /\ Head(s) \in Whitespace THEN trimStart(Tail(s)) ELSE s

RECURSIVE trimEnd(_)
trimEnd(s) ==
    IF s # <<>> /\ s[Len(s)] \in Whitespace THEN trimEnd(SubSeq(s, 1, Len(s) - 1)) ELSE s

\* String.prototype.trim
trim(s) == trimEnd(trimStart(s))

\* summary.split(/\n/)
RECURSIVE split(_)
split(s) ==
    IF \E i \in 1..Len(s) : s[i] = 10
    THEN LET i == CHOOSE k \in 1..Len(s) : s[k] = 10 /\ \A j \in 1..(k - 1) : s[j] # 10
         IN  <<SubSeq(s, 1, i - 1)>> \o split(SubSeq(s, i + 1, Len(s)))
    ELSE <<s>>

\* lines.join("\n")
RECURSIVE join(_)
join(lines) ==
    IF lines = <<>> THEN <<>>
    ELSE IF Len(lines) = 1 THEN lines[1]
    ELSE lines[1] \o <<10>> \o join(Tail(lines))

\* line.trim().startsWith("-") || ...startsWith("•") || ...startsWith("*")
startsWithBullet(line) ==
    LET t == trim(line) IN t # <<>> /\ t[1] \in {45, 8226, 42}

\* Step 3 of extractSummary: no more than five bullet lines.
bulletLimit(summary) ==
    LET bulletLines == SelectSeq(split(summary), startsWithBullet)
    IN  IF Len(bulletLines) > 5 THEN join(SubSeq(bulletLines, 1, 5)) ELSE summary

\* Texts an LLM answers with: "-a", " -a \n", "x\n-a", six bullets, six
\* bullets of the three kinds among other lines, " \n" and "".
OneBullet == <<45, 97>>
PaddedBullet == <<32, 45, 97, 32, 10>>
SixBullets == <<45, 97, 10, 45, 98, 10, 45, 99, 10, 45, 100, 10, 45, 101, 10, 45, 102>>
FiveBullets == <<45, 97, 10, 45, 98, 10, 45, 99, 10, 45, 100, 10, 45, 101>>
MixedBullets ==
    <<42, 32, 97, 10, 8226, 32, 98, 10, 32, 45, 99, 10, 45, 100, 10, 121, 10, 45, 101,
      10, 45, 102>>
MixedFive == <<42, 32, 97, 10, 8226, 32, 98, 10, 32, 45, 99, 10, 45, 100, 10, 45, 101>>
Generated == {OneBullet, PaddedBullet, SixBullets, MixedBullets, <<32, 10>>, EmptyString}

\* What a call of the LLM's API comes to: an answer with or without a
\* choice, an error status, or a fetch that rejects.
GroqThrew == [ok |-> FALSE, status |-> 0, text |-> "fetch failed"]
GroqOutcomes ==
    {[ok |-> TRUE, content |-> <<t>>] : t \in Generated}
    \cup {[ok |-> TRUE, content |-> <<>>],
          [ok |-> FALSE, status |-> 429, text |-> "rate limit"],
          GroqThrew}

(***************************************************************************)
(* POST /summarize, POST /verify-fact: the server's proxy to Groq          *)
(***************************************************************************)
\* const GROQ_API_KEY = process.env.GROQ_API_KEY
GROQ_API_KEY == "process.env.GROQ_API_KEY"
NoKey == "none"

\* The response of POST /summarize to body when its call of Groq comes to groq.
SummarizeResponse(body, groq) ==
    IF Not_(body, "userPrompt") THEN Json(400, [error |-> "userPrompt is required"])
    ELSE IF groq = GroqThrew THEN Json(500, [error |-> "summarize failed"])
    ELSE IF ~groq.ok THEN Json(groq.status, [error |-> groq.text])
    ELSE Json(200, [summary |-> trim(IF groq.content = <<>> THEN EmptyString
                                     ELSE groq.content[1])])

\* "Links provided: "
Links == <<76, 105, 110, 107, 115, 32, 112, 114, 111, 118, 105, 100, 101, 100, 58, 32>>
VerifyBodies ==
    {[claim |-> c, context |-> Links] : c \in Contents}
    \cup {[context |-> Links], [claim |-> SkyBlue, context |-> EmptyString]}

\* What Groq answers a verification with: a JSON object, a text that is not
\* JSON, no choice, an error status, or a fetch that rejects.
Verdict(v) == [verdict |-> v, reasoning |-> "evidence"]
EmptyObject == [verdict |-> "undefined", reasoning |-> "undefined"]
VerdictOutcomes ==
    {[ok |-> TRUE, content |-> <<[json |-> TRUE, value |-> Verdict(v)]>>] :
        v \in {"VERIFIED", "FALSE"}}
    \cup {[ok |-> TRUE, content |-> <<[json |-> FALSE]>>],
          [ok |-> TRUE, content |-> <<>>],
          [ok |-> FALSE, status |-> 429, text |-> "rate limit"],
          GroqThrew}

\* JSON.parse(content) in its try, with the catch's result
parseVerdict(content) ==
    IF content = <<>> THEN EmptyObject
    ELSE IF content[1].json THEN content[1].value
    ELSE [verdict |-> "UNCERTAIN", reasoning |-> "Failed to parse API response"]

\* The response of POST /verify-fact to body when its call of Groq comes to groq.
VerifyFactResponse(body, groq) ==
    IF Not_(body, "claim") \/ Not_(body, "context")
    THEN Json(400, [error |-> "claim and context are required"])
    ELSE IF groq = GroqThrew THEN Json(500, [error |-> "verify-fact failed"])
    ELSE IF ~groq.ok THEN Json(groq.status, [error |-> groq.text])
    ELSE Json(200, parseVerdict(groq.content))

\* Verifications the model follows.
MaxVerifies == 2

\* Lines 148-213: the handler of POST /verify-fact.  Past the validation it
\* calls Groq, whatever it answered before (groq: whether it did).
VerifyFact(body) ==
    /\ Len(verified) < MaxVerifies
    /\ \E groq \in VerdictOutcomes :
           verified' = Append(verified,
                              [body |-> body,
                               groq |-> ~(Not_(body, "claim") \/ Not_(body, "context")),
                               response |-> VerifyFactResponse(body, groq)])
    /\ UNCHANGED <<serverVars, ext, fetches, fc, contentVars>>

(***************************************************************************)
(* extractSummary of the extension's service worker                       *)
(***************************************************************************)
NoResponse == [status |-> -1, body |-> NoBody]

\* fetch(url, {body}) as the log keeps it: key is the API key the request
\* carries, response what the call came to once it has.
Fetch(url, body, key) == [url |-> url, body |-> body, key |-> key, response |-> NoResponse]

\* response.ok
Ok(response) == response.status \in 200..299

\* The template of the user prompt around the content, its fixed text cut
\* to "Text:\n" and "\n\nSummary:".
userPrompt(content) ==
    <<84, 101, 120, 116, 58, 10>> \o content \o <<10, 10, 83, 117, 109, 109, 97, 114, 121, 58>>
\* "Extract."
SYSTEM_PROMPT == <<69, 120, 116, 114, 97, 99, 116, 46>>

\* The contents extractSummary is called with.
ExtContents == {SkyBlue, EmptyString}

\* The responses POST /check-summary and POST /cache-summary give to a body:
\* a lookup is answered with what is stored, or as a miss (the entry has
\* expired or was purged), or 500.
CheckSummaryAnswers(body) ==
    IF Not_(body, "content") THEN {Json(400, [error |-> "content is required"])}
    ELSE {CheckSummaryResponse([Request("check", body) EXCEPT !.reply = reply]) :
             reply \in {OkReply(<<>>), ErrReply, OkReply(ext.stored[body.content])}}
CacheSummaryAnswers(body) ==
    IF Not_(body, "content") \/ Not_(body, "summary")
    THEN {Json(400, [error |-> "content and summary are required"])}
    ELSE {Json(200, [stored |-> TRUE]), Json(500, [error |-> "cache store failed"])}

\* A new extractSummary starts when the last has returned and its store
\* has settled.
Returned == ext.pc = "idle" \/ (ext.pc = "done" /\ ~ext.storing)
Started(content, llm, pc) ==
    [pc |-> pc, content |-> content, llm |-> llm, result |-> EmptyString, storing |-> FALSE,
     stored |-> ext.stored]

\* part_003, lines 206-209 and 162-168: extractSummary(content) awaits
\* checkSummaryCache, which awaits its fetch.  (llm: what Groq answers if
\* it is asked in this run.)
extractSummary(content, llm) ==
    /\ Returned
    /\ ext' = Started(content, llm, "lookup")
    /\ fetches' = <<Fetch("/check-summary", [content |-> content], NoKey)>>
    /\ UNCHANGED <<serverVars, verified, fc, contentVars>>

\* Lines 168-181 and 209-224: checkSummaryCache returns; a hit is returned,
\* otherwise /summarize is fetched.
extractSummaryLookedUp ==
    /\ ext.pc = "lookup"
    /\ \E response \in CheckSummaryAnswers(fetches[1].body) \cup {FetchFailed} :
         LET cachedSummary == checkSummaryCache(response)
             got == [fetches EXCEPT ![1].response = response]
         IN  IF Truthy(cachedSummary)
             THEN /\ ext' = [ext EXCEPT !.pc = "done", !.result = cachedSummary[1]]
                  /\ fetches' = got
             ELSE /\ ext' = [ext EXCEPT !.pc = "summarize"]
                  /\ fetches' = Append(got,
                                       Fetch("/summarize",
                                             [systemPrompt |-> SYSTEM_PROMPT,
                                              userPrompt |-> userPrompt(ext.content)],
                                             NoKey))
    /\ UNCHANGED <<serverVars, verified, fc, contentVars>>

\* Lines 228-241 and the catch: the summary extractSummary returns when its
\* fetch of /summarize came to response.
summaryOf(response) ==
    IF response = FetchFailed \/ ~Ok(response) THEN EmptyString
    ELSE bulletLimit(trim(IF "summary" \in DOMAIN response.body
                          THEN response.body.summary ELSE EmptyString))

\* The store issued whatever the summary.
extractSummarySummarizedStoresEmpty ==
    /\ ext.pc = "summarize"
    /\ \E response \in {SummarizeResponse(fetches[2].body, ext.llm), FetchFailed} :
         LET summary == summaryOf(response)
             got == [fetches EXCEPT ![2].response = response]
             stores == response # FetchFailed /\ Ok(response)
         IN  /\ ext' = [ext EXCEPT !.pc = "done", !.result = summary, !.storing = stores]
             /\ fetches' = IF stores
                           THEN Append(got, Fetch("/cache-summary",
                                                  [content |-> ext.content,
                                                   summary |-> summary], NoKey))
                           ELSE got
    /\ UNCHANGED <<serverVars, verified, fc, contentVars>>

\* Lines 226-255: the fetch of /summarize settles; a summary that is not
\* empty is handed to storeSummaryInCache, which is not awaited.
extractSummarySummarized ==
    /\ ext.pc = "summarize"
    /\ \E response \in {SummarizeResponse(fetches[2].body, ext.llm), FetchFailed} :
         LET summary == summaryOf(response)
             got == [fetches EXCEPT ![2].response = response]
             stores == summary # EmptyString
         IN  /\ ext' = [ext EXCEPT !.pc = "done", !.result = summary, !.storing = stores]
             /\ fetches' = IF stores
                           THEN Append(got, Fetch("/cache-summary",
                                                  [content |-> ext.content,
                                                   summary |-> summary], NoKey))
                           ELSE got
    /\ UNCHANGED <<serverVars, verified, fc, contentVars>>

\* Lines 188-199: the fetch of storeSummaryInCache settles; the response is
\* not read, a rejection is logged.  (A store answered 200 has been applied;
\* one answered 500, or whose fetch rejected, may have been.)
storeSummaryInCache ==
    /\ ext.pc = "done"
    /\ ext.storing
    /\ \E response \in CacheSummaryAnswers(fetches[3].body) \cup {FetchFailed},
          applied \in BOOLEAN :
           /\ response.status = 200 => applied
           /\ response.status = 400 => ~applied
           /\ fetches' = [fetches EXCEPT ![3].response = response]
           /\ ext' = [ext EXCEPT !.storing = FALSE,
                                 !.stored[ext.content] =
                                     IF applied THEN <<fetches[3].body.summary>> ELSE @]
    /\ UNCHANGED <<serverVars, verified, fc, contentVars>>

(***************************************************************************)
(* extractSummary of src/background.js, which calls Gemini itself          *)
(***************************************************************************)
\* const GEMINI_API_KEY = "AIza..." (the literal, cut) and the URL built
\* from it, `...:generateContent?key=${GEMINI_API_KEY}`.
GEMINI_API_KEY == "AIza"
GEMINI_API_URL == "generativelanguage.googleapis.com"

\* The response of Gemini's API when the call comes to llm.
GeminiResponse(llm) ==
    IF llm = GroqThrew THEN FetchFailed
    ELSE IF ~llm.ok THEN Json(llm.status, [error |-> llm.text])
    ELSE IF llm.content = <<>> THEN Json(200, [candidates |-> <<>>])
    ELSE Json(200, [candidates |-> llm.content])

\* src/background.js, lines 64-97: the prompt is built and Gemini fetched
\* at GEMINI_API_URL.
extractSummaryGemini(content, llm) ==
    /\ Returned
    /\ ext' = Started(content, llm, "gemini")
    /\ fetches' = <<Fetch(GEMINI_API_URL, [contents |-> userPrompt(content)], GEMINI_API_KEY)>>
    /\ UNCHANGED <<serverVars, verified, fc, contentVars>>

\* Lines 99-117: the fetch settles; the text of the first candidate,
\* trimmed, or "".
extractSummaryGeminiAnswered ==
    /\ ext.pc = "gemini"
    /\ LET response == GeminiResponse(ext.llm)
       IN  /\ fetches' = [fetches EXCEPT ![1].response = response]
           /\ ext' = [ext EXCEPT
                        !.pc = "done",
                        !.result = IF response = FetchFailed \/ ~Ok(response)
                                      \/ response.body.candidates = <<>>
                                   THEN EmptyString
                                   ELSE trim(response.body.candidates[1])]
    /\ UNCHANGED <<serverVars, verified, fc, contentVars>>

\* The extension's extractSummary, of either build, and the server's
\* verification proxy.
NextExtension ==
    \/ \E content \in ExtContents, llm \in GroqOutcomes : extractSummary(content, llm)
    \/ extractSummaryLookedUp
    \/ extractSummarySummarized
    \/ storeSummaryInCache
    \/ \E content \in ExtContents, llm \in GroqOutcomes : extractSummaryGemini(content, llm)
    \/ extractSummaryGeminiAnswered
    \/ \E body \in VerifyBodies : VerifyFact(body)

SpecExtension == Init /\ [][NextExtension]_vars

Next ==
    \/ \E body \in CheckBodies : CheckSummary(body)
    \/ CheckSummaryResume
    \/ \E body \in CacheBodies : CacheSummary(body)
    \/ CacheSummaryResume
    \/ ClearCache
    \/ ClearCacheResume
    \/ ResetStats
    \/ Metrics
    \/ MetricsResume
    \/ Health
    \/ HealthResume
    \/ Deliver
    \/ ValkeyExec
    \/ Connect
    \/ ConnectOk
    \/ ConnectFail
    \/ ConnectionLost
    \/ \E d \in Ticks : Tick(d)

Spec == Init /\ [][Next]_vars

\* The cache operations and the administrative actions on the entries and
\* the counters, with the summaries the lookups answer observed.
NextObserved ==
    \/ \E body \in CheckBodies : CheckSummary(body)
    \/ CheckSummaryResumeObserved
    \/ \E body \in CacheBodies : CacheSummary(body)
    \/ CacheSummaryResume
    \/ ClearCache
    \/ ClearCacheResume
    \/ ResetStats
    \/ Deliver
    \/ ValkeyExec
    \/ Connect
    \/ ConnectOk
    \/ ConnectFail
    \/ ConnectionLost
    \/ \E d \in Ticks : Tick(d)

SpecObserved == Init /\ [][NextObserved]_vars

\* What the event loop guarantees: a continuation that is due is run, a
\* response written is sent, the module's connect() is called.  Nothing
\* makes Valkey answer, the connection change or a request arrive: the
\* client is created without commandTimeout and no call is raced against
\* a timer.
Fairness ==
    /\ WF_vars(CheckSummaryResume)
    /\ WF_vars(CacheSummaryResume)
    /\ WF_vars(ClearCacheResume)
    /\ WF_vars(MetricsResume)
    /\ WF_vars(HealthResume)
    /\ WF_vars(Deliver)
    /\ WF_vars(Connect)

SpecFair == Init /\ [][Next]_vars /\ Fairness

(***************************************************************************)
(* Properties                                                              *)
(***************************************************************************)
\* A response to op is being sent.
Sent(op) == out # NoOut /\ out.req.op = op
\* This step sends a response to op.
Sends(op) == out = NoOut /\ out' # NoOut /\ out'.req.op = op
\* A lookup is answered hit / miss.
AnsweredHit == Sent("check") /\ "hit" \in DOMAIN out.resp.body /\ out.resp.body.hit
AnsweredMiss == Sent("check") /\ "hit" \in DOMAIN out.resp.body /\ ~out.resp.body.hit
\* A field that is missing or empty.
Blank(body, field) == field \notin DOMAIN body \/ body[field] = EmptyString
Present(c) == KeyOf[c] \in DOMAIN kv

\* C1 (round trip): a lookup of C that Valkey answered, issued after a store
\* of (C, V) with no purge, no later store of C and less than ten minutes in
\* between, is answered hit = true with summary V.
RoundTrip ==
    (Sent("check") /\ out.req.reply.st = "ok" /\ Fresh(out.req.expect))
        => out.resp = Json(200, [hit |-> TRUE, summary |-> out.req.expect.v])

RoundTripWitness ==
    /\ AnsweredHit
    /\ out.req.body.content = SkyBlue
    /\ out.resp.body.summary = SumTrue
    /\ out.req.expect = [v |-> SumTrue, age |-> 0, prior |-> -1]

\* C2 (expiry): a lookup of C that Valkey answered ten minutes or more after
\* the last store of C is answered hit = false, and no entry is present ten
\* minutes after its last write.
Expiry ==
    /\ (Sent("check") /\ out.req.reply.st = "ok" /\ out.req.expect = Expired)
            => out.resp = Json(200, [hit |-> FALSE])
    /\ \A c \in Contents : Present(c) => Fresh(written[c])

ExpiryWitness ==
    /\ AnsweredMiss
    /\ out.req.expect = Expired

\* C3 as claimed: two lookups of C answered hit within the window of a
\* store of C (here: at the same clock reading, with no purge in between)
\* carry the same summary.
SameValueInWindow ==
    (AnsweredHit /\ out.prev # EmptyString) => out.resp.body.summary = out.prev

\* C3 as amended (read your writes, last write wins): a lookup of C answered
\* hit carries the value of the last store of C that Valkey executed before
\* the lookup's GET, and that store is less than ten minutes old and not
\* purged since.
ReadYourWrites ==
    AnsweredHit =>
        /\ Fresh(out.req.expect)
        /\ out.resp.body.summary = out.req.expect.v

ReadYourWritesWitness ==
    /\ AnsweredHit
    /\ out.prev # EmptyString
    /\ out.prev # out.resp.body.summary
    /\ out.resp.body.summary = out.req.expect.v

CounterCorrectness ==
    (Sent("metrics") /\ out.resp.status = 200)
        => /\ out.resp.body.cacheHits = answered.h
           /\ out.resp.body.cacheMisses = answered.m

CounterCorrectnessWitness ==
    /\ Sent("metrics")
    /\ out.resp.status = 200
    /\ answered = [h |-> 1, m |-> 1]

\* C6 (no lost update): whatever lookups are in flight together, the two
\* counters together have grown by the number of lookups answered hit or miss.
NoLostUpdate ==
    cacheHits + cacheMisses = answered.h + answered.m

NoLostUpdateWitness ==
    /\ AnsweredHit \/ AnsweredMiss
    /\ PendingLookups # {}
    /\ cacheHits + cacheMisses > 0

ValidationOnStore ==
    /\ [](\A i \in 1..Len(pending) : pending[i].op = "cache" =>
            ~Blank(pending[i].body, "content") /\ ~Blank(pending[i].body, "summary"))
    /\ [][(Sends("cache") /\ (Blank(out'.req.body, "content") \/ Blank(out'.req.body, "summary")))
            => /\ out'.resp = Json(400, [error |-> "content and summary are required"])
               /\ out'.req.cmd = NoCmd
               /\ kv' = kv
               /\ pending' = pending
               /\ settled' = settled]_vars

ValidationOnStoreWitness ==
    /\ Sent("cache")
    /\ out.req.body = [content |-> SkyBlue, summary |-> EmptyString]
    /\ out.resp.status = 400
    /\ Present(SkyBlue)
    /\ kv[KeyOf[SkyBlue]].ttl < TTL_SECONDS

\* This step is Valkey executing a FLUSHALL.
Flushes ==
    /\ settled = <<>>
    /\ settled' # <<>>
    /\ Head(settled').cmd.name = "flushall"
    /\ Head(settled').reply.st = "ok"

\* C9 (purge): the step in which Valkey executes the FLUSHALL of a purge
\* leaves no key at all (DBSIZE 0, every lookup a miss) and the counters
\* as they were, whatever the keyspace was before; executed once more it
\* changes nothing; the purge is answered success = true.
PurgeAll ==
    /\ []((Sent("clear") /\ out.req.reply.st = "ok")
            => out.resp = Json(200, [success |-> TRUE, message |-> "Cache cleared"]))
    /\ [][Flushes =>
            /\ DOMAIN kv' = {}
            /\ ReplyTo(kv', [name |-> "dbsize"]) = 0
            /\ \A c \in Contents : ~Truthy(ReplyTo(kv', [name |-> "get", key |-> KeyOf[c]]))
            /\ Execute(kv', [name |-> "flushall"]) = kv'
            /\ cacheHits' = cacheHits
            /\ cacheMisses' = cacheMisses]_vars

PurgeAllWitness ==
    /\ Sent("clear")
    /\ out.resp.status = 200
    /\ kv = EmptyDb
    /\ cacheHits + cacheMisses > 0

\* C10 (reset): the step that answers a reset leaves both counters at zero and
\* the keyspace (keys, values, remaining lifetimes) as it was; a reset of
\* counters that are zero already leaves the same state.
ResetCounters ==
    [][Sends("reset") =>
        /\ cacheHits' = 0
        /\ cacheMisses' = 0
        /\ kv' = kv
        /\ out'.resp = Json(200, [success |-> TRUE, message |-> "Stats reset"])]_vars

ResetCountersWitness ==
    /\ Sent("reset")
    /\ cacheHits = 0
    /\ cacheMisses = 0
    /\ Present(SkyBlue)
    /\ kv[KeyOf[SkyBlue]] = [value |-> SumFalse, ttl |-> TTL_SECONDS \div 2]

\* This step is one of a request to op: the request is taken and its valkey
\* command called, Valkey executes the command or the call is rejected, or
\* the response is sent.
StepOf(op) ==
    \/ Len(pending') = Len(pending) + 1 /\ pending'[Len(pending')].op = op
    \/ settled = <<>> /\ settled' # <<>> /\ Head(settled').op = op
    \/ Sends(op)

PurgeStep == StepOf("clear")

\* C11 (purge leaves the counters): no step of a purge, answered success or
\* answered "failed to clear cache", changes cacheHits or cacheMisses.
PurgeKeepsCounters ==
    [][PurgeStep => cacheHits' = cacheHits /\ cacheMisses' = cacheMisses]_vars

PurgeKeepsCountersWitness ==
    /\ Sent("clear")
    /\ out.resp = Json(500, [error |-> "failed to clear cache"])
    /\ cacheHits = 1
    /\ cacheMisses = 1

\* C12 (counter lifecycle): both counters are natural numbers, zero when
\* the process has started, and a step that makes either of them smaller is
\* the reset.
CounterLifecycle ==
    /\ cacheHits = 0 /\ cacheMisses = 0
    /\ [](cacheHits \in Nat /\ cacheMisses \in Nat)
    /\ [][(cacheHits' < cacheHits \/ cacheMisses' < cacheMisses) => Sends("reset")]_vars
    /\ [][~Sends("reset") => cacheHits' >= cacheHits /\ cacheMisses' >= cacheMisses]_vars

CounterLifecycleWitness ==
    /\ Sent("reset")
    /\ out.prev = <<1, 1>>
    /\ cacheHits = 0
    /\ cacheMisses = 0

\* C13 (one value per fingerprint, last write wins): the keyspace holds, for
\* each content, at most the one entry under its key, carrying the summary of
\* the SET for that content executed last and not purged or expired since;
\* and every store whose SET was executed, whatever it replaced, is answered
\* stored = true.
LastWriteWins ==
    /\ DOMAIN kv \subseteq {KeyOf[c] : c \in Contents} \cup {ForeignKey}
    /\ \A c \in Contents :
          /\ Fresh(written[c]) => Present(c)
          /\ Present(c) => kv[KeyOf[c]].value = written[c].v
    /\ (Sent("cache") /\ out.req.reply.st = "ok") => out.resp = Json(200, [stored |-> TRUE])

LastWriteWinsWitness ==
    /\ Sent("cache")
    /\ out.req.body = [content |-> SkyBlue, summary |-> SumFalse]
    /\ out.req.expect = [v |-> SumTrue, age |-> 0, prior |-> -1]
    /\ out.resp = Json(200, [stored |-> TRUE])
    /\ kv[KeyOf[SkyBlue]].value = SumFalse
    /\ Cardinality(DOMAIN kv) = 2

\* C14 (a re-store resets the expiry): an entry has the value of the last SET
\* of its content and TTL_SECONDS less the age of that SET to live, whatever
\* it replaced; a lookup Valkey answered after a re-store less than ten
\* minutes old is a hit with the re-stored value, however old the replaced
\* entry was.
RestoreResetsExpiry ==
    /\ \A c \in Contents : Present(c) =>
          /\ Fresh(written[c])
          /\ kv[KeyOf[c]] = [value |-> written[c].v, ttl |-> TTL_SECONDS - written[c].age]
    /\ (Sent("check") /\ out.req.reply.st = "ok" /\ Fresh(out.req.expect)
            /\ out.req.expect.prior > 0)
          => out.resp = Json(200, [hit |-> TRUE, summary |-> out.req.expect.v])

\* A lookup answered 300 s after the re-store, which replaced an entry then
\* 300 s old: TTL_SECONDS after the first store, the re-stored value is a hit.
RestoreResetsExpiryWitness ==
    /\ AnsweredHit
    /\ out.req.expect = [v |-> SumFalse, age |-> TTL_SECONDS \div 2, prior |-> TTL_SECONDS \div 2]
    /\ out.resp.body.summary = SumFalse

\* C15 (key isolation, no normalisation): different contents, the two that
\* differ in letter case included, have different keys, and a lookup Valkey
\* answered for a content with no store of its own (none, or purged, or
\* expired) is a miss whatever is stored for other contents.
KeyIsolation ==
    /\ \A c1, c2 \in Contents \cup {EmptyString} : c1 # c2 => KeyOf[c1] # KeyOf[c2]
    /\ (Sent("check") /\ out.req.reply.st = "ok" /\ ~Fresh(out.req.expect))
          => out.resp = Json(200, [hit |-> FALSE])

\* "The sky is blue." is stored, fresh; the lookup of "The sky is Blue."
\* is a miss.
KeyIsolationWitness ==
    /\ AnsweredMiss
    /\ out.req.body.content = SkyBlueCap
    /\ out.req.expect = Unwritten
    /\ Present(SkyBlue)
    /\ kv[KeyOf[SkyBlue]] = [value |-> SumTrue, ttl |-> TTL_SECONDS]

\* The requests in their handlers.
InFlight ==
    {pending[i] : i \in 1..Len(pending)} \cup {settled[i] : i \in 1..Len(settled)}
        \cup (IF out = NoOut THEN {} ELSE {out.req})

\* C16 (fingerprint determinism): the key of a content is "summary:" and
\* the hex SHA-256 digest of the content, and every GET and SET, whatever
\* the counters, the keyspace and the connection are when it is issued,
\* carries the key of its request's content.
FingerprintDeterminism ==
    /\ KeyOf[SkyBlue] = "summary:52ae4fd504d855f1dd094ab54e2da8402c96250ef75ef775a3cf20ff39d0cb2b"
    /\ KeyOf[SkyBlueCap] = "summary:8989cc7498c1c66273b2c6c870776537cd2087cc744765272dcdadebed5e87c9"
    /\ \A r \in InFlight :
          (r.cmd.name \in {"get", "set"} /\ "content" \in DOMAIN r.body)
              => r.cmd.key = KeyOf[r.body.content]

\* A lookup issued with a counter above zero, the entry stored 300 s ago and
\* the connection down, and a store of the same content behind it.
FingerprintDeterminismWitness ==
    /\ Len(pending) = 2
    /\ pending[1].cmd = [name |-> "get", key |-> KeyOf[SkyBlue]]
    /\ pending[2].cmd.name = "set"
    /\ pending[2].cmd.key = KeyOf[SkyBlue]
    /\ cacheHits = 1
    /\ Present(SkyBlue)
    /\ kv[KeyOf[SkyBlue]].ttl = TTL_SECONDS \div 2
    /\ conn = "connecting"

\* C17 (metrics snapshot or error): a snapshot whose valkey.dbsize or
\* valkey.info failed is answered 500 "metrics failed" and nothing else; one
\* answered 200 had both answered, and carries the counters as they are and
\* the key count DBSIZE replied, which was the number of keys in the keyspace
\* when the reply was taken.
MetricsSnapshot ==
    /\ Sent("metrics") =>
          IF out.req.reply.st = "err"
          THEN out.resp = Json(500, [error |-> "metrics failed"])
          ELSE /\ out.req.cmd.name = "info"
               /\ out.resp.status = 200
               /\ out.resp.body.cacheHits = cacheHits
               /\ out.resp.body.cacheMisses = cacheMisses
               /\ out.resp.body.totalKeys = out.req.dbsize
    /\ \A i \in 1..Len(settled) :
          (settled[i].op = "metrics" /\ settled[i].cmd.name = "dbsize"
              /\ settled[i].reply.st = "ok")
            => settled[i].reply.val = ValkeyDbsize(kv)

\* DBSIZE was answered (two keys), INFO failed: no partial snapshot.
MetricsSnapshotWitness ==
    /\ Sent("metrics")
    /\ out.req.cmd.name = "info"
    /\ out.req.reply.st = "err"
    /\ out.req.dbsize = 2
    /\ out.resp.status = 500

\* C18 (health probe): a probe is answered 200 with status "ok", valkey
\* "connected" if its ping was answered and "disconnected" if it was not,
\* and no step of a probe changes the counters or the keyspace.
HealthNeverFails ==
    /\ [](Sent("health") =>
            out.resp = Json(200, [status |-> "ok",
                valkey |-> IF out.req.reply.st = "ok" THEN "connected" ELSE "disconnected"]))
    /\ [][StepOf("health") =>
            cacheHits' = cacheHits /\ cacheMisses' = cacheMisses /\ kv' = kv]_vars

HealthNeverFailsWitness ==
    /\ Sent("health")
    /\ out.resp.body.valkey = "disconnected"
    /\ conn = "end"
    /\ cacheHits + cacheMisses > 0
    /\ Present(SkyBlue)

\* C19 (bounded reconnect): the connection starts waiting, goes to connecting
\* when connect() is called and from there to ready or, attempt by attempt,
\* to end; retryStrategy grants a retry for times 1, 2 and 3 and none for
\* times 4, so the retry counter never passes 4, the connection has ended
\* exactly when it is 4, and nothing is attempted after that.
BoundedReconnect ==
    /\ conn = "wait"
    /\ retryStrategy(1) = 200 /\ retryStrategy(2) = 400 /\ retryStrategy(3) = 600
    /\ retryStrategy(4) = Null
    /\ [](/\ conn \in {"wait", "connecting", "ready", "end"}
          /\ attempts \in 0..4
          /\ conn = "end" <=> attempts = 4
          /\ conn \in {"wait", "ready"} => attempts = 0)
    /\ [][(conn' # conn \/ attempts' # attempts) =>
            \/ conn = "wait" /\ conn' = "connecting" /\ attempts' = attempts
            \/ conn = "connecting" /\ conn' = "ready" /\ attempts' = 0
            \/ /\ conn \in {"connecting", "ready"}
               /\ attempts' = attempts + 1
               /\ conn' = IF attempts' > 3 THEN "end" ELSE "connecting"]_vars

\* Connected once (an entry was stored), then lost and abandoned.
BoundedReconnectWitness ==
    /\ conn = "end"
    /\ attempts = 4
    /\ Present(SkyBlue)

\* The error each route answers when its valkey call is rejected.
FailureOf ==
    [check |-> "cache check failed", cache |-> "cache store failed",
     metrics |-> "metrics failed", clear |-> "failed to clear cache"]

\* C20 (abandoned for good, never blocking): once the connection has ended
\* it stays ended; a call made on it is rejected at once, so no request
\* waits on the store, the continuation of every request taken is due or
\* its response on its way, and a lookup, store, snapshot or purge whose
\* call was rejected is answered 500 with the error of its route.
StaysDisconnected ==
    /\ [][conn = "end" => conn' = "end" /\ attempts' = attempts]_vars
    /\ [](conn = "end" =>
            /\ pending = <<>>
            /\ \A i \in 1..Len(settled) : settled[i].reply.st = "err"
            /\ (settled # <<>> \/ out # NoOut) =>
                  ENABLED (CheckSummaryResume \/ CacheSummaryResume \/ ClearCacheResume
                            \/ MetricsResume \/ HealthResume \/ Deliver))
    /\ []((out # NoOut /\ out.req.reply.st = "err" /\ out.req.op \in DOMAIN FailureOf)
            => out.resp = Json(500, [error |-> FailureOf[out.req.op]]))

\* A store that arrived after the connection had ended.
StaysDisconnectedWitness ==
    /\ Sent("cache")
    /\ out.req.reply = ClosedReply
    /\ conn = "end"
    /\ out.resp = Json(500, [error |-> "cache store failed"])

\* This step is Valkey executing the command of a request to op.
ExecStep(op) ==
    /\ settled = <<>>
    /\ settled' # <<>>
    /\ Head(settled').op = op
    /\ Head(settled').reply.st = "ok"

\* The entries under keys other than key are the same before and after.
OthersKept(key) ==
    \A k \in (DOMAIN kv \cup DOMAIN kv') \ {key} :
        k \in DOMAIN kv /\ k \in DOMAIN kv' /\ kv'[k] = kv[k]

\* C22 as claimed: a store answered with a failure was attempted once and
\* has created no entry: Valkey has not executed its SET.
FailedStoreCreatesNoEntry ==
    (Sent("cache") /\ out.req.cmd.name = "set" /\ out.resp.status = 500)
        => out.req.execs = 0

\* C22 as amended: a store whose valkey.set was rejected is answered 500
\* "cache store failed" and one answered stored = true had its SET executed;
\* no step of a store changes the counters or an entry under another key,
\* and a step of a store other than the execution of its SET changes no
\* entry at all.  (The SET may have been executed, even twice, before the
\* connection was lost with its reply.)
FailedStoreReported ==
    /\ []((Sent("cache") /\ out.req.reply.st = "err")
            => out.resp = Json(500, [error |-> "cache store failed"]))
    /\ []((Sent("cache") /\ out.resp.status = 200)
            => /\ out.resp = Json(200, [stored |-> TRUE])
               /\ out.req.reply.st = "ok"
               /\ out.req.execs >= 1)
    /\ [][StepOf("cache") =>
            /\ cacheHits' = cacheHits /\ cacheMisses' = cacheMisses
            /\ IF ExecStep("cache")
               THEN OthersKept(Head(settled').cmd.key)
               ELSE kv' = kv]_vars

\* The SET was executed, its reply lost with the connection, the retries
\* exhausted: the store is answered 500 and its entry is there.
FailedStoreReportedWitness ==
    /\ Sent("cache")
    /\ out.resp = Json(500, [error |-> "cache store failed"])
    /\ out.req.execs = 1
    /\ out.req.body = [content |-> SkyBlue, summary |-> SumTrue]
    /\ Present(SkyBlue)
    /\ kv[KeyOf[SkyBlue]].value = SumTrue

Continues ==
    /\ out = NoOut
    /\ settled # <<>>
    /\ settled' = Tail(settled)
    /\ conn' = conn
    /\ attempts' = attempts

\* C24 (no error ends the process): the continuation of a request whose
\* valkey call was rejected answers that request, 500 with the error of its
\* route or, for the health probe, 200, and leaves the counters as they
\* were; a request failing validation is answered 400 with the counters as
\* they were; every response is a 200, a 400 or a 500; and whenever nothing
\* is due the server takes the next request.
NoCrash ==
    /\ [][(Continues /\ Head(settled).reply.st = "err") =>
            /\ out' # NoOut
            /\ out'.req = Head(settled)
            /\ out'.resp.status = IF out'.req.op = "health" THEN 200 ELSE 500
            /\ cacheHits' = cacheHits /\ cacheMisses' = cacheMisses]_vars
    /\ [][(out = NoOut /\ out' # NoOut /\ out'.resp.status = 400)
            => cacheHits' = cacheHits /\ cacheMisses' = cacheMisses]_vars
    /\ [](out # NoOut => out.resp.status \in {200, 400, 500})
    /\ []((Quiet /\ conn # "wait" /\ Len(pending) < MaxInFlight)
            => ENABLED ResetStats /\ ENABLED Health /\ ENABLED ClearCache)

\* Two stores were rejected when the connection ended; the first is
\* answered, the second is due, the counters are as the lookups left them.
NoCrashWitness ==
    /\ Sent("cache")
    /\ out.req.reply = ErrReply
    /\ out.resp.status = 500
    /\ settled # <<>>
    /\ Head(settled).reply = ErrReply
    /\ cacheHits + cacheMisses = 2

\* C27 (validation on lookup): a lookup whose content is missing or empty
\* is answered 400 "content is required" in the step it arrives, with no
\* command issued and the counters and the keyspace as they were; no GET
\* for such a lookup is ever waiting.
ValidationOnLookup ==
    /\ [](\A i \in 1..Len(pending) :
            pending[i].op = "check" => ~Blank(pending[i].body, "content"))
    /\ [][(Sends("check") /\ Blank(out'.req.body, "content"))
            => /\ out'.resp = Json(400, [error |-> "content is required"])
               /\ out'.req.cmd = NoCmd
               /\ kv' = kv
               /\ pending' = pending
               /\ settled' = settled
               /\ cacheHits' = cacheHits
               /\ cacheMisses' = cacheMisses]_vars

ValidationOnLookupWitness ==
    /\ Sent("check")
    /\ out.req.body = [content |-> EmptyString]
    /\ out.resp.status = 400
    /\ cacheHits = 1
    /\ Present(SkyBlue)

\* C28 (read-only probes): no step of a snapshot or of a health probe,
\* answered or failed, changes cacheHits, cacheMisses or the keyspace.
ReadOnlyProbes ==
    [][(StepOf("metrics") \/ StepOf("health")) =>
        /\ cacheHits' = cacheHits
        /\ cacheMisses' = cacheMisses
        /\ kv' = kv]_vars

ReadOnlyProbesWitness ==
    /\ Sent("metrics")
    /\ out.resp.status = 200
    /\ out.resp.body.totalKeys = 2
    /\ out.resp.body.cacheHits = 1
    /\ cacheHits = 1
    /\ Present(SkyBlue)
    /\ kv[KeyOf[SkyBlue]].ttl = TTL_SECONDS \div 2

\* C21 (nothing blocks for ever): whenever a request waits on its valkey
\* call, a response is eventually sent, even if Valkey never answers.
NoIndefiniteBlock ==
    (pending # <<>>) ~> (out # NoOut)

\* The fetches of the extractSummary in progress that went to url.
Calls(url) == {i \in 1..Len(fetches) : fetches[i].url = url}
\* An extractSummary of the cache-server build has started.
CacheRun == ext.pc # "idle" /\ fetches[1].url = "/check-summary"

\* C25 (lookup, then compute, then store): extractSummary fetches
\* /check-summary first and nothing else until it has returned; on a hit it
\* returns the cached summary and fetches nothing more; on a miss it fetches
\* /summarize next, and /cache-summary once, with the content and the summary
\* it returns, exactly when that summary is not empty.
LookupBeforeCompute ==
    CacheRun =>
        LET lookup == fetches[1].response
            looked == lookup # NoResponse
            hit == looked /\ Truthy(checkSummaryCache(lookup))
        IN  /\ Calls("/check-summary") = {1}
            /\ ~looked => Len(fetches) = 1
            /\ hit => /\ Len(fetches) = 1
                      /\ ext.pc = "done"
                      /\ ext.result = lookup.body.summary
            /\ looked /\ ~hit =>
                   /\ Calls("/summarize") = {2}
                   /\ Calls("/cache-summary") \subseteq {3}
                   /\ Len(fetches) <= 3
                   /\ Len(fetches) = 3 <=> (ext.pc = "done" /\ ext.result # EmptyString)
                   /\ Len(fetches) = 3 =>
                          /\ fetches[2].response # NoResponse
                          /\ fetches[3].body = [content |-> ext.content, summary |-> ext.result]

LookupBeforeComputeWitness ==
    /\ ext.pc = "done"
    /\ ~ext.storing
    /\ Len(fetches) = 3
    /\ fetches[1].response = Json(200, [hit |-> FALSE])
    /\ fetches[2].response = Json(200, [summary |-> MixedBullets])
    /\ fetches[3].body = [content |-> SkyBlue, summary |-> MixedFive]
    /\ fetches[3].response = Json(200, [stored |-> TRUE])

\* A fetch of the extractSummary in progress found the cache server
\* unreachable, or its lookup or its store was answered with an error.
Outage ==
    \E i \in 1..Len(fetches) :
        \/ fetches[i].response = FetchFailed
        \/ /\ fetches[i].url \in {"/check-summary", "/cache-summary"}
           /\ fetches[i].response # NoResponse
           /\ ~Ok(fetches[i].response)

\* C26 (outages never affect functionality): an extractSummary that met
\* an outage of the cache server or of its store returns the summary it
\* returns when the lookup misses and the generator is reached.
OutageInvisible ==
    CacheRun /\ ext.pc = "done" /\ Outage =>
        ext.result = summaryOf(SummarizeResponse(fetches[2].body, ext.llm))

\* C29 (verification results are cached): a claim verified again with the
\* same evidence is answered with the verdict given before, without a
\* call of the LLM.
VerdictsReused ==
    \A i, j \in 1..Len(verified) :
        i < j /\ verified[i].body = verified[j].body /\ Ok(verified[i].response) =>
            /\ ~verified[j].groq
            /\ verified[j].response = verified[i].response

\* The response carries the server's key in its error text.
Exposes(response) ==
    "error" \in DOMAIN response.body /\ response.body.error = GROQ_API_KEY

\* C30 (API keys stay on the server): no fetch of the extension carries
\* an API key, and no response it receives carries the server's.
KeysStayServerSide ==
    \A i \in 1..Len(fetches) :
        fetches[i].key = NoKey /\ ~Exposes(fetches[i].response)

EntriesNeverEmpty ==
    /\ \A c \in Contents :
          Present(c) => /\ kv[KeyOf[c]].value # EmptyString
                        /\ kv[KeyOf[c]].ttl \in 1..TTL_SECONDS
    /\ (Sent("check") /\ out.req.reply.st = "ok") =>
          /\ "hit" \in DOMAIN out.resp.body
          /\ out.resp.body.hit <=> out.req.reply.val # <<>>
          /\ out.resp.body.hit <=> Fresh(out.req.expect)

EntriesNeverEmptyWitness ==
    /\ AnsweredHit
    /\ out.req.body.content = SkyBlue
    /\ out.req.reply.val = <<SumFalse>>
    /\ Present(SkyBlue)
    /\ kv[KeyOf[SkyBlue]] = [value |-> SumFalse, ttl |-> TTL_SECONDS \div 2]

\* C36 (frame of store and lookup): no step of a store changes cacheHits
\* or cacheMisses, and no step of a lookup, its GET included, changes the
\* keyspace: no entry created, overwritten, removed or given a new expiry.
StoreLookupFrame ==
    [][/\ StepOf("cache") => cacheHits' = cacheHits /\ cacheMisses' = cacheMisses
       /\ StepOf("check") => kv' = kv]_vars

StoreLookupFrameWitness ==
    /\ AnsweredHit
    /\ cacheHits = 2
    /\ out.req.expect = [v |-> SumTrue, age |-> TenMinutes \div 2, prior |-> -1]
    /\ kv[KeyOf[SkyBlue]].ttl = TTL_SECONDS \div 2

\* C37 (retry delay): retryStrategy answers 200, 400 and 600 ms to the first
\* three retries, never less than to the retry before and never more than
\* 2000 ms, and no delay from the fourth on; the client reconnects after
\* each of the three delays and ends at the fourth.
RetryDelay ==
    /\ \A n \in 1..3 : /\ retryStrategy(n) = n * 200
                       /\ retryStrategy(n) <= 2000
                       /\ n > 1 => retryStrategy(n) >= retryStrategy(n - 1)
    /\ \A n \in 4..8 : retryStrategy(n) = Null
    /\ [][attempts' = attempts + 1 =>
            IF retryStrategy(attempts') = Null
            THEN attempts' = 4 /\ conn' = "end"
            ELSE /\ retryStrategy(attempts') = attempts' * 200
                 /\ conn' = "connecting"]_vars

\* The third retry, a store waiting to be sent again.
RetryDelayWitness ==
    /\ conn = "connecting"
    /\ attempts = 3
    /\ pending # <<>>
    /\ Head(pending).op = "cache"

\* C34 (a failed or empty generation is never cached): when the fetch of
\* /summarize rejects, is answered with a status that is not OK, or gives an
\* empty summary, extractSummary returns "" and no store is issued; the
\* cache changes only when a store of a non-empty summary settles, to that
\* summary; and a lookup of a content with nothing stored is a miss that
\* goes on to the generator.
FailedGenerationNotCached ==
    [][/\ (ext.pc = "summarize" /\ ext'.pc = "done"
             /\ (fetches'[2].response = FetchFailed \/ ~Ok(fetches'[2].response)
                 \/ ext'.result = EmptyString))
          => /\ ext'.result = EmptyString
             /\ Len(fetches') = 2
             /\ ~ext'.storing
             /\ ext'.stored = ext.stored
       /\ ext'.stored # ext.stored
          => /\ ext.pc = "done" /\ ext.storing /\ ext.result # EmptyString
             /\ ext'.stored = [ext.stored EXCEPT ![ext.content] = <<ext.result>>]
       /\ (ext.pc = "lookup" /\ ext'.pc # "lookup" /\ ext.content = SkyBlue
             /\ ext.stored[SkyBlue] = <<>>)
          => ext'.pc = "summarize" /\ Calls("/summarize")' = {2}]_vars

\* A generation answered 429: extractSummary has returned "", with its two
\* fetches made and nothing stored.
FailedGenerationNotCachedWitness ==
    /\ ext.pc = "done"
    /\ ext.content = SkyBlue
    /\ ext.result = EmptyString
    /\ ext.stored[SkyBlue] = <<>>
    /\ Len(fetches) = 2
    /\ fetches[1].response = Json(200, [hit |-> FALSE])
    /\ fetches[2].url = "/summarize"
    /\ fetches[2].response = Json(429, [error |-> "rate limit"])

(***************************************************************************)
(* factChecker.js: verifyFact, fetchAndConcatHtml, verifyWithGemini        *)
(***************************************************************************)
\* "VERDICT:" and the alternatives TRUE | FALSE | UNCERTAIN of the pattern
\* of verifyWithGemini.
VerdictLabel == <<86, 69, 82, 68, 73, 67, 84, 58>>
Verdicts ==
    <<(<<84, 82, 85, 69>>), (<<70, 65, 76, 83, 69>>),
      (<<85, 78, 67, 69, 82, 84, 65, 73, 78>>)>>

\* The captured word returned in the case the LLM wrote it in.
toUpperCaseKept(s) == s

\* String.prototype.toUpperCase, on the letters a pattern with flag i takes
\* for those of its words.
toUpperCase(s) == [i \in 1..Len(s) |-> IF s[i] \in 97..122 THEN s[i] - 32 ELSE s[i]]

\* Flag i: text has the characters of word at p, in either case.
At(text, p, word) ==
    /\ p + Len(word) - 1 <= Len(text)
    /\ \A i \in 1..Len(word) :
         text[p + i - 1] \in (IF word[i] \in 65..90 THEN {word[i], word[i] + 32}
                              ELSE {word[i]})

\* \s*, greedy: the first position from q on that holds no whitespace.
pastWhitespace(text, q) ==
    CHOOSE k \in q..(Len(text) + 1) :
        /\ k = Len(text) + 1 \/ text[k] \notin Whitespace
        /\ \A j \in q..(k - 1) : text[j] \in Whitespace

\* text.match(/VERDICT:\s*(TRUE|FALSE|UNCERTAIN)/i): the group of the
\* leftmost match, or nothing.
verdictMatch(text) ==
    LET word(p) == pastWhitespace(text, p + Len(VerdictLabel))
        starts == {p \in 1..Len(text) :
                     /\ At(text, p, VerdictLabel)
                     /\ \E n \in 1..3 : At(text, word(p), Verdicts[n])}
    IN  IF starts = {} THEN <<>>
        ELSE LET p == CHOOSE k \in starts : \A j \in starts : k <= j
                 n == CHOOSE k \in 1..3 : At(text, word(p), Verdicts[k])
             IN  <<SubSeq(text, word(p), word(p) + Len(Verdicts[n]) - 1)>>

\* text.match(/REASONING:\s*(.+?)(?=\n\n|$)/is): the group runs from the
\* first character that is no whitespace (from the last whitespace, when
\* nothing else follows) up to the first empty line or the end.
reasoningMatch(text) ==
    LET ReasoningLabel == <<82, 69, 65, 83, 79, 78, 73, 78, 71, 58>>
        after(p) == p + Len(ReasoningLabel)
        starts == {p \in 1..Len(text) :
                     At(text, p, ReasoningLabel) /\ after(p) <= Len(text)}
    IN  IF starts = {} THEN <<>>
        ELSE LET p == CHOOSE k \in starts : \A j \in starts : k <= j
                 w == pastWhitespace(text, after(p))
                 q == IF w > Len(text) THEN Len(text) ELSE w
                 r == CHOOSE k \in (q + 1)..(Len(text) + 1) :
                        /\ k = Len(text) + 1
                           \/ (k < Len(text) /\ text[k] = 10 /\ text[k + 1] = 10)
                        /\ \A j \in (q + 1)..(k - 1) :
                             ~(j < Len(text) /\ text[j] = 10 /\ text[j + 1] = 10)
             IN  <<SubSeq(text, q, r - 1)>>

\* Lines 561-568: what verifyWithGemini returns for the text of the answer.
verifyWithGeminiResult(text) ==
    [verdict |-> IF verdictMatch(text) # <<>> THEN toUpperCase(verdictMatch(text)[1])
                 ELSE Verdicts[3],
     reasoning |-> IF reasoningMatch(text) # <<>> THEN trim(reasoningMatch(text)[1])
                   ELSE EmptyString,
     raw |-> trim(text)]

\* Texts Gemini answers with: "VERDICT: TRUE", "verdict:false",
\* "Verdict:\n Uncertain", "VERDICT: [TRUE]", "It is TRUE.",
\* "VERDICT: FALSE\nVERDICT: TRUE" and "VERDICT: TRUE\nREASONING: ok\n\nmore".
VerdictTexts ==
    {<<86, 69, 82, 68, 73, 67, 84, 58, 32, 84, 82, 85, 69>>,
     <<118, 101, 114, 100, 105, 99, 116, 58, 102, 97, 108, 115, 101>>,
     <<86, 101, 114, 100, 105, 99, 116, 58, 10, 32, 85, 110, 99, 101, 114, 116, 97,
       105, 110>>,
     <<86, 69, 82, 68, 73, 67, 84, 58, 32, 91, 84, 82, 85, 69, 93>>,
     <<73, 116, 32, 105, 115, 32, 84, 82, 85, 69, 46>>,
     <<86, 69, 82, 68, 73, 67, 84, 58, 32, 70, 65, 76, 83, 69, 10, 86, 69, 82, 68, 73,
       67, 84, 58, 32, 84, 82, 85, 69>>,
     <<86, 69, 82, 68, 73, 67, 84, 58, 32, 84, 82, 85, 69, 10, 82, 69, 65, 83, 79, 78,
       73, 78, 71, 58, 32, 111, 107, 10, 10, 109, 111, 114, 101>>}

\* What the call of Gemini comes to: an answer with or without a candidate,
\* an error status, or a fetch that rejects.
GeminiAnswers ==
    {[ok |-> TRUE, content |-> <<t>>] : t \in VerdictTexts}
    \cup {[ok |-> TRUE, content |-> <<>>],
          [ok |-> FALSE, status |-> 429, text |-> "rate limit"],
          GroqThrew}

\* verifyFact testing the statement alone.
verifyFactStatementOnly(statement, links) ==
    /\ fc.pc \in {"idle", "returned", "thrown"}
    /\ fc' = IF statement = EmptyString
             THEN [NotCalled EXCEPT !.pc = "thrown", !.via = "verifyFact",
                                    !.statement = statement, !.links = links,
                                    !.error =
                                        "Statement and at least one link are required"]
             ELSE [NotCalled EXCEPT !.pc = "fetchHtml", !.via = "verifyFact",
                                    !.statement = statement, !.links = links,
                                    !.fetched = 1]
    /\ UNCHANGED <<serverVars, ext, fetches, verified, contentVars>>

\* Lines 577-582: verifyFact throws for a statement or a list of links that
\* is missing or empty; otherwise fetchAndConcatHtml fetches the first link.
verifyFact(statement, links) ==
    /\ fc.pc \in {"idle", "returned", "thrown"}
    /\ fc' = IF statement = EmptyString \/ links = <<>> \/ links[1] = <<>>
             THEN [NotCalled EXCEPT !.pc = "thrown", !.via = "verifyFact",
                                    !.statement = statement, !.links = links,
                                    !.error =
                                        "Statement and at least one link are required"]
             ELSE [NotCalled EXCEPT !.pc = "fetchHtml", !.via = "verifyFact",
                                    !.statement = statement, !.links = links,
                                    !.fetched = 1]
    /\ UNCHANGED <<serverVars, ext, fetches, verified, contentVars>>

\* Lines 504-523 and 583: a fetchHtml settles with the page, a status that
\* is not OK or an abort, and its chunk is pushed; the next link is fetched
\* or, after the last one, verifyWithGemini is called with the blob.  (The
\* lengths of the pages are not part of the model.)
fetchHtml(outcome) ==
    /\ fc.pc = "fetchHtml"
    /\ fc.fetched <= Len(fc.links[1])
    /\ LET chunks == Append(fc.chunks, outcome)
       IN  fc' = IF fc.fetched < Len(fc.links[1])
                 THEN [fc EXCEPT !.chunks = chunks, !.fetched = @ + 1]
                 ELSE [fc EXCEPT !.chunks = chunks, !.pc = "gemini", !.calls = 1]
    /\ UNCHANGED <<serverVars, ext, fetches, verified, contentVars>>

\* Lines 531-551: verifyWithGemini called by itself, as the tests do.
verifyWithGemini(statement) ==
    /\ fc.pc \in {"idle", "returned", "thrown"}
    /\ fc' = [NotCalled EXCEPT !.pc = "gemini", !.via = "verifyWithGemini",
                               !.statement = statement, !.calls = 1]
    /\ UNCHANGED <<serverVars, ext, fetches, verified, contentVars>>

\* Lines 553-568 and 584-587: the fetch of Gemini settles; a response that
\* is not OK (and a fetch that rejects) is thrown, any other gives a result.
verifyWithGeminiAnswered(answer) ==
    /\ fc.pc = "gemini"
    /\ LET response == GeminiResponse(answer)
           text == IF response.body.candidates = <<>> THEN EmptyString
                   ELSE response.body.candidates[1]
       IN  fc' = IF response = FetchFailed
                 THEN [fc EXCEPT !.pc = "thrown", !.error = "fetch failed"]
                 ELSE IF ~Ok(response)
                 THEN [fc EXCEPT !.pc = "thrown", !.error = "Gemini API error"]
                 ELSE [fc EXCEPT !.pc = "returned", !.text = text,
                                 !.result = <<verifyWithGeminiResult(text)>>]
    /\ UNCHANGED <<serverVars, ext, fetches, verified, contentVars>>

\* The calls of the fact checker: of verifyFact with a statement or "", and
\* with no list of links, an empty one, or one or two URLs.
NextFactChecker ==
    \/ \E statement \in {SkyBlue, EmptyString},
          links \in {<<>>} \cup {<<l>> : l \in {<<>>, <<"https://a">>,
                                                <<"https://a", "https://b">>}} :
         verifyFact(statement, links)
    \/ \E outcome \in {"html", "HTTP 404", "aborted"} : fetchHtml(outcome)
    \/ \E statement \in {SkyBlue, EmptyString} : verifyWithGemini(statement)
    \/ \E answer \in GeminiAnswers : verifyWithGeminiAnswered(answer)

SpecFactChecker == Init /\ [][NextFactChecker]_vars

\* C31: verifyFact called with an empty statement, or with a list of links
\* that is missing or empty, throws the error that says the inputs are
\* required, having fetched no page and called no LLM.
InvalidInputRejected ==
    (/\ fc.via = "verifyFact"
     /\ fc.statement = EmptyString \/ fc.links = <<>> \/ fc.links[1] = <<>>)
    => /\ fc.pc = "thrown"
       /\ fc.error = "Statement and at least one link are required"
       /\ fc.fetched = 0
       /\ fc.calls = 0

InvalidInputRejectedWitness ==
    /\ fc.via = "verifyFact"
    /\ fc.statement = SkyBlue
    /\ fc.links = <<>>
    /\ fc.pc = "thrown"
    /\ fc.fetched = 0

\* The LLM's answer holds a verdict that the pattern recognizes: the label,
\* whitespace or none, and one of the three words, in any case.
Recognizable(text) ==
    \E p \in 1..Len(text), n \in 1..3 :
        /\ At(text, p, VerdictLabel)
        /\ \E q \in (p + Len(VerdictLabel))..Len(text) :
             /\ \A j \in (p + Len(VerdictLabel))..(q - 1) : text[j] \in Whitespace
             /\ At(text, q, Verdicts[n])

\* C32: every result verifyWithGemini and verifyFact return has the verdict
\* TRUE, FALSE or UNCERTAIN, and UNCERTAIN when the LLM's answer holds no
\* recognizable verdict.
VerdictInRange ==
    fc.pc = "returned"
    => /\ \E n \in 1..3 : fc.result[1].verdict = Verdicts[n]
       /\ ~Recognizable(fc.text) => fc.result[1].verdict = Verdicts[3]

VerdictInRangeWitness ==
    /\ fc.pc = "returned"
    /\ fc.via = "verifyFact"
    /\ fc.text = <<86, 69, 82, 68, 73, 67, 84, 58, 32, 91, 84, 82, 85, 69, 93>>
    /\ fc.result[1].verdict = Verdicts[3]

(***************************************************************************)
(* content.js: init, scanPage and the debounced rescans                    *)
(***************************************************************************)
\* const DEBOUNCE_DELAY = 2000, and the 500 ms scanPage waits between two
\* searches; time advances in steps of the latter.
DEBOUNCE_DELAY == 2000
PauseDelay == 500

\* .split(/\n|(?=- )/): a cut at every line feed, which goes, and before
\* every "- " that does not begin the piece.
RECURSIVE splitClaims(_)
splitClaims(s) ==
    LET cuts == {q \in 1..Len(s) :
                   \/ s[q] = 10
                   \/ q > 1 /\ q < Len(s) /\ s[q] = 45 /\ s[q + 1] = 32}
    IN  IF cuts = {} THEN <<s>>
        ELSE LET q == CHOOSE k \in cuts : \A j \in cuts : k <= j
             IN  <<SubSeq(s, 1, q - 1)>>
                 \o splitClaims(SubSeq(s, IF s[q] = 10 THEN q + 1 ELSE q, Len(s)))

\* The claims of a summary without .slice(0, 5).
claimsOfUnsliced(summary) ==
    LET pieces == splitClaims(summary)
        strip(line) == IF line # <<>> /\ line[1] \in {45, 8226, 42}
                       THEN SubSeq(line, pastWhitespace(line, 2), Len(line))
                       ELSE line
        lines == [n \in 1..Len(pieces) |-> trim(strip(pieces[n]))]
        long(line) == Len(line) > 10
    IN  SelectSeq(lines, long)

\* Lines 302-306: the claims of a summary: its pieces, without their bullet
\* and trimmed, that are longer than ten characters, and of these the
\* first five.
claimsOf(summary) ==
    LET pieces == splitClaims(summary)
        strip(line) == IF line # <<>> /\ line[1] \in {45, 8226, 42}
                       THEN SubSeq(line, pastWhitespace(line, 2), Len(line))
                       ELSE line
        lines == [n \in 1..Len(pieces) |-> trim(strip(pieces[n]))]
        long(line) == Len(line) > 10
    IN  SubSeq(SelectSeq(lines, long), 1, Min(5, Len(SelectSeq(lines, long))))

\* Texts the LLM answers extractSummary with: seven bullets "- The sky is
\* blue.", four such bullets and three numbered lines "1. The sky is
\* blue.", two bullets on one line, a bullet and "- a", "-a", and "".
ClaimTexts ==
    LET Bullet == <<45, 32>> \o SkyBlue
        Numbered(n) == <<48 + n, 46, 32>> \o SkyBlue
    IN  {join([n \in 1..7 |-> Bullet]),
         join([n \in 1..7 |-> IF n <= 4 THEN Bullet ELSE Numbered(n)]),
         Bullet \o <<32>> \o Bullet,
         Bullet \o <<10, 45, 32, 97>>,
         OneBullet,
         EmptyString}

\* setTimeout: a timer of its own id is pending for the delay.
setTimeout(set, fn, delay) ==
    LET id == CHOOSE n \in 1..(Cardinality(set) + 1) :
                /\ \A t \in set : t.id # n
                /\ \A m \in 1..(n - 1) : \E t \in set : t.id = m
    IN  [id |-> id, left |-> delay, fn |-> fn]

\* scanPage without the release of isProcessing when no element is found.
scanPageHolding(found, by) ==
    IF isProcessing \/ ~aiAvailable
    THEN [isProcessing |-> isProcessing, scans |-> scans, ended |-> "refused"]
    ELSE IF ~found
    THEN [isProcessing |-> TRUE, scans |-> scans, ended |-> "empty"]
    ELSE [isProcessing |-> TRUE, ended |-> "none",
          scans |-> Append(scans, [pc |-> "summary", by |-> by,
                                   generated |-> EmptyString, summary |-> EmptyString,
                                   claims |-> <<>>, i |-> 0, searches |-> 0,
                                   checks |-> 0])]

\* Lines 262-285: scanPage up to its first await: it returns when a scan is
\* in progress (or the AI is not available), and when extractVisibleText
\* finds no element; otherwise the summary is asked for.
scanPage(found, by) ==
    IF isProcessing \/ ~aiAvailable
    THEN [isProcessing |-> isProcessing, scans |-> scans, ended |-> "refused"]
    ELSE IF ~found
    THEN [isProcessing |-> FALSE, scans |-> scans, ended |-> "empty"]
    ELSE [isProcessing |-> TRUE, ended |-> "none",
          scans |-> Append(scans, [pc |-> "summary", by |-> by,
                                   generated |-> EmptyString, summary |-> EmptyString,
                                   claims |-> <<>>, i |-> 0, searches |-> 0,
                                   checks |-> 0])]

\* Lines 228-237: CHECK_AI is answered, or sendMessage rejects.
checkAI(available) ==
    /\ page.init = "checkAI"
    /\ aiAvailable' = available
    /\ page' = [page EXCEPT !.init = "checked"]
    /\ UNCHANGED <<serverVars, ext, fetches, verified, fc, isProcessing, debounceTimer,
                   timers, scans>>

\* Lines 443-455: init after checkAI: it returns without the AI, otherwise
\* it awaits scanPage and then sets up the MutationObserver.
init(found) ==
    /\ page.init = "checked"
    /\ LET scan == scanPage(found, "init")
       IN  /\ isProcessing' = scan.isProcessing
           /\ scans' = scan.scans
           /\ page' = [page EXCEPT
                         !.init = IF ~aiAvailable THEN "disabled"
                                  ELSE IF scan.ended = "none" THEN "scanning"
                                  ELSE "observing",
                         !.last = IF aiAvailable /\ scan.ended # "none" THEN scan.ended
                                  ELSE @]
    /\ UNCHANGED <<serverVars, ext, fetches, verified, fc, aiAvailable, debounceTimer,
                   timers>>

\* debouncedScan without clearTimeout.
debouncedScanKeepsTimer ==
    /\ page.init = "observing"
    /\ LET timer == setTimeout(timers, "debounce", DEBOUNCE_DELAY)
       IN  /\ timers' = timers \cup {timer}
           /\ debounceTimer' = timer.id
    /\ page' = [page EXCEPT !.since = 0, !.calls = 0, !.gap = page.since,
                            !.cleared = debounceTimer # Null]
    /\ UNCHANGED <<serverVars, ext, fetches, verified, fc, aiAvailable, isProcessing,
                   scans>>

\* Lines 388-396 and 399-429: the observer is called with a mutation that
\* added content, and debouncedScan clears the pending timer and sets a
\* new one.  (As history: the time since the mutation before, and whether
\* a timer was cleared.)
debouncedScan ==
    /\ page.init = "observing"
    /\ LET kept == {t \in timers : t.id # debounceTimer}
           timer == setTimeout(kept, "debounce", DEBOUNCE_DELAY)
       IN  /\ timers' = kept \cup {timer}
           /\ debounceTimer' = timer.id
    /\ page' = [page EXCEPT !.since = 0, !.calls = 0, !.gap = page.since,
                            !.cleared = debounceTimer # Null]
    /\ UNCHANGED <<serverVars, ext, fetches, verified, fc, aiAvailable, isProcessing,
                   scans>>

\* PauseDelay milliseconds pass; a timer that is due stays so until the
\* event loop runs it.
TimePasses ==
    /\ \/ \E t \in timers : t.left > 0
       \/ page.since # Null /\ page.since < DEBOUNCE_DELAY
    /\ timers' = {[t EXCEPT !.left = IF @ > PauseDelay THEN @ - PauseDelay ELSE 0] :
                    t \in timers}
    /\ page' = [page EXCEPT !.since = IF @ = Null THEN Null
                                      ELSE Min(@ + PauseDelay, DEBOUNCE_DELAY)]
    /\ UNCHANGED <<serverVars, ext, fetches, verified, fc, aiAvailable, isProcessing,
                   debounceTimer, scans>>

\* Lines 392-395: the debounce timer fires: scanPage is called, and
\* debounceTimer is null when it has returned its promise.
debounceFired(found) ==
    \E t \in timers :
        /\ t.fn = "debounce"
        /\ t.left = 0
        /\ LET scan == scanPage(found, "timer")
           IN  /\ isProcessing' = scan.isProcessing
               /\ scans' = scan.scans
               /\ page' = [page EXCEPT !.calls = @ + 1,
                                       !.last = IF scan.ended # "none" THEN scan.ended
                                                ELSE @,
                                       !.refused = IF scan.ended = "none" THEN FALSE
                                                   ELSE @ \/ scan.ended = "refused"]
        /\ debounceTimer' = Null
        /\ timers' = timers \ {t}
        /\ UNCHANGED <<serverVars, ext, fetches, verified, fc, aiAvailable>>

\* Lines 377-381 (and 453-454): a scan ends, normally or in its catch:
\* isProcessing is false again, and init, if it awaited this scan, sets up
\* the observer.
Finished(k, how) ==
    /\ isProcessing' = FALSE
    /\ scans' = SubSeq(scans, 1, k - 1) \o SubSeq(scans, k + 1, Len(scans))
    /\ page' = [page EXCEPT !.last = how,
                            !.init = IF scans[k].by = "init" THEN "observing" ELSE @]
    /\ UNCHANGED timers

\* Lines 362-365: after a claim, the 500 ms before the next one, or the end.
claimDone(k) ==
    IF scans[k].i < Len(scans[k].claims)
    THEN /\ scans' = [scans EXCEPT ![k].pc = "pause"]
         /\ timers' = timers \cup {setTimeout(timers, "pause", PauseDelay)}
         /\ UNCHANGED <<isProcessing, page>>
    ELSE Finished(k, "done")

\* Lines 285-315: EXTRACT_SUMMARY is answered with the summary extractSummary
\* made of the LLM's text (or sendMessage rejects: ""); without a summary or
\* a claim the scan ends, otherwise the first claim is searched for.
extractSummaryWithAI(k, text) ==
    /\ scans[k].pc = "summary"
    /\ LET summary == summaryOf(Json(200, [summary |-> trim(text)]))
           claims == claimsOf(summary)
       IN  IF claims = <<>>
           THEN Finished(k, "done")
           ELSE /\ scans' = [scans EXCEPT ![k] = [@ EXCEPT !.pc = "search",
                                                          !.generated = text,
                                                          !.summary = summary,
                                                          !.claims = claims,
                                                          !.i = 1, !.searches = 1]]
                /\ UNCHANGED <<isProcessing, page, timers>>
    /\ UNCHANGED <<serverVars, ext, fetches, verified, fc, aiAvailable, debounceTimer>>

\* Lines 96-107 and 315-360: SEARCH_CLAIM is answered: without a response
\* `searchResult.sources` throws into the catch of scanPage; with sources
\* VERIFY_FACT is sent; with none (or when sendMessage rejected) the claim
\* is done.
searchForClaim(k, result) ==
    /\ scans[k].pc = "search"
    /\ IF result = "undefined" THEN Finished(k, "error")
       ELSE IF result = "sources"
       THEN /\ scans' = [scans EXCEPT ![k].pc = "verify", ![k].checks = @ + 1]
            /\ UNCHANGED <<isProcessing, page, timers>>
       ELSE claimDone(k)
    /\ UNCHANGED <<serverVars, ext, fetches, verified, fc, aiAvailable, debounceTimer>>

\* Lines 115-128 and 347-357: VERIFY_FACT is answered, or sendMessage
\* rejects; either way there is a verdict and the claim is done.
verifyClaimWithLinks(k) ==
    /\ scans[k].pc = "verify"
    /\ claimDone(k)
    /\ UNCHANGED <<serverVars, ext, fetches, verified, fc, aiAvailable, debounceTimer>>

\* Lines 362-365 and 311-315: the pause is over and the next claim is
\* searched for.
pauseOver(k) ==
    \E t \in timers :
        /\ t.fn = "pause"
        /\ t.left = 0
        /\ scans[k].pc = "pause"
        /\ timers' = timers \ {t}
        /\ scans' = [scans EXCEPT ![k].pc = "search", ![k].i = @ + 1,
                                  ![k].searches = @ + 1]
        /\ UNCHANGED <<serverVars, ext, fetches, verified, fc, aiAvailable,
                       isProcessing, debounceTimer, page>>

\* The content script in a page whose content changes.
NextContent ==
    \/ \E available \in BOOLEAN : checkAI(available)
    \/ \E found \in BOOLEAN : init(found)
    \/ debouncedScan
    \/ TimePasses
    \/ \E found \in BOOLEAN : debounceFired(found)
    \/ \E k \in 1..Len(scans), text \in ClaimTexts : extractSummaryWithAI(k, text)
    \/ \E k \in 1..Len(scans), result \in {"undefined", "sources", "none", "rejected"} :
         searchForClaim(k, result)
    \/ \E k \in 1..Len(scans) : verifyClaimWithLinks(k)
    \/ \E k \in 1..Len(scans) : pauseOver(k)

SpecContent == Init /\ [][NextContent]_vars

\* C38: page scans exclude one another and the guard is released: never is
\* more than one scanPage execution in progress (a call made during one
\* returns without scanning), and isProcessing is true exactly while one
\* is, so it is false again when a scan has ended, whether it found no
\* element, ran to its end or was thrown into its catch.
ScanExclusive ==
    /\ Len(scans) <= 1
    /\ isProcessing <=> scans # <<>>
    /\ page.refused /\ page.last = "refused" => scans # <<>>

ScanExclusiveWitness ==
    /\ page.last = "error"
    /\ page.refused
    /\ ~isProcessing
    /\ scans = <<>>

\* C39, as stated: every burst of mutations triggers its own scanPage call:
\* the timer is only ever cleared by a mutation of the same burst, one that
\* comes less than DEBOUNCE_DELAY after the mutation before it.
DebounceEveryBurst == page.cleared => page.gap < DEBOUNCE_DELAY

\* C39: at most one debounce timer is pending, and it is the one
\* debounceTimer names; a content mutation restarts the delay, so that the
\* timer is due DEBOUNCE_DELAY after the last mutation; until it fires no
\* scanPage call is made for the mutations since the last call, and when it
\* has fired exactly one has been made, no sooner than DEBOUNCE_DELAY after
\* the last mutation.  (A timer that fires late can be cleared by a mutation
\* that comes DEBOUNCE_DELAY or more after the one before it.)
DebouncedRescan ==
    LET debounce == {t \in timers : t.fn = "debounce"}
    IN  /\ Cardinality(debounce) <= 1
        /\ \A t \in debounce :
             t.id = debounceTimer /\ t.left = DEBOUNCE_DELAY - page.since
        /\ debounceTimer # Null => debounce # {}
        /\ debounce # {} => page.calls = 0
        /\ page.since # Null /\ debounce = {} => page.calls = 1
        /\ page.calls <= 1
        /\ page.calls = 1 => page.since = DEBOUNCE_DELAY

DebouncedRescanWitness ==
    /\ page.cleared
    /\ page.gap = PauseDelay
    /\ page.calls = 1
    /\ debounceTimer = Null

\* C40: a scanPage run has at most five claims, searches for at most five
\* and sends at most five fact checks, at most one for each claim searched;
\* and when the LLM's text had more than five bullet lines, the summary of
\* extractSummary has no more than five.
FiveClaimsPerSummary ==
    \A k \in 1..Len(scans) :
        /\ Len(scans[k].claims) <= 5
        /\ scans[k].searches <= 5
        /\ scans[k].checks <= scans[k].searches
        /\ Len(SelectSeq(split(scans[k].generated), startsWithBullet)) > 5
           => Len(SelectSeq(split(scans[k].summary), startsWithBullet)) <= 5

FiveClaimsPerSummaryWitness ==
    \E k \in 1..Len(scans) :
        /\ scans[k].searches = 5
        /\ scans[k].checks = 5
        /\ Len(SelectSeq(split(scans[k].generated), startsWithBullet)) = 7

====
